---- MODULE Spec2Model ----
(***************************************************************************)
(* A model of the three Ansible modules of this repository                *)
(* (profitbricks, profitbricks_volume, profitbricks_nic): the provider's  *)
(* resources, one module invocation at a time, and the asynchronous       *)
(* waiter _wait_for_completion stepping one sleep/poll cycle per action.  *)
(*                                                                         *)
(* Strings are sequences of one-character strings, so that the name       *)
(* template formatting (name % number) and the regular expression         *)
(* uuid_match are computed, not assumed.                                   *)
(***************************************************************************)
EXTENDS Integers, Sequences, FiniteSets, TLC

(***************************************************************************)
(* Bounds of the model.                                                    *)
(***************************************************************************)
\* largest value of the count parameter
MaxCount == 3
\* number of invocations of the module in one behaviour (a task and its re-runs)
MaxRuns == 2
\* largest time an API poll adds to one sleep/poll cycle, beyond the sleep itself
MaxLatency == 1

(***************************************************************************)
(* Program constants.                                                      *)
(***************************************************************************)
\* time.sleep(5) in _wait_for_completion
SleepInterval == 5
\* count_offset = 1 in create_virtual_machine / create_volume
count_offset == 1
\* cores=dict(type='int', default=2) of the server module
DefaultCores == 2
\* size=dict(type='int', default=10) of the volume module
DefaultSize == 10
\* cpu_family=dict(..., default='AMD_OPTERON')
DefaultCpuFamily == "AMD_OPTERON"

(***************************************************************************)
(* Strings.                                                                *)
(***************************************************************************)
Digits == <<"0", "1", "2", "3", "4", "5", "6", "7", "8", "9">>

DigitSet == {Digits[k] : k \in 1..10}

LetterSet ==
    {"a", "b", "c", "d", "e", "f", "g", "h", "i", "j", "k", "l", "m",
     "n", "o", "p", "q", "r", "s", "t", "u", "v", "w", "x", "y", "z",
     "A", "B", "C", "D", "E", "F", "G", "H", "I", "J", "K", "L", "M",
     "N", "O", "P", "Q", "R", "S", "T", "U", "V", "W", "X", "Y", "Z"}

\* the regular expression class [\w]
IsWordChar(c) == c \in LetterSet \cup DigitSet \cup {"_"}

\* uuid_match.match(s): the pattern is anchored at the start of s only
uuid_match(s) ==
    /\ Len(s) >= 36
    /\ \A k \in 1..36 :
          IF k \in {9, 14, 19, 24} THEN s[k] = "-" ELSE IsWordChar(s[k])

DigitValue(c) == CHOOSE d \in 0..9 : Digits[d + 1] = c

RECURSIVE IntToStr(_)
\* str(n) for n >= 0
IntToStr(n) ==
    IF n < 10 THEN <<Digits[n + 1]>>
    ELSE IntToStr(n \div 10) \o <<Digits[(n % 10) + 1]>>

RECURSIVE PadLeft(_, _, _)
\* int(s), for a string of decimal digits
RECURSIVE StrToInt(_)
StrToInt(s) ==
    IF s = <<>> THEN 0
    ELSE 10 * StrToInt(SubSeq(s, 1, Len(s) - 1)) + DigitValue(s[Len(s)])

PadLeft(s, width, ch) ==
    IF Len(s) >= width THEN s ELSE PadLeft(<<ch>> \o s, width, ch)

RECURSIVE ParseWidth(_, _, _)
\* the digits of a field width starting at position j: <<next position, width>>
ParseWidth(fmt, j, acc) ==
    IF j <= Len(fmt) /\ fmt[j] \in DigitSet
    THEN ParseWidth(fmt, j + 1, acc * 10 + DigitValue(fmt[j]))
    ELSE <<j, acc>>

RECURSIVE PyFormatFrom(_, _, _, _, _)
\* Python's  fmt % n  for one integer argument n, from position i on.
\* The directives %d %i %u %s with an optional 0 flag and width, and %%.
\* err: "none", "not_all" (TypeError: not all arguments converted during
\* string formatting), "not_enough" (TypeError: not enough arguments for
\* format string), "value_error" (ValueError: incomplete format or
\* unsupported format character).
PyFormatFrom(fmt, i, n, used, out) ==
    IF i > Len(fmt)
    THEN [err |-> IF used THEN "none" ELSE "not_all", out |-> out]
    ELSE IF fmt[i] # "%"
    THEN PyFormatFrom(fmt, i + 1, n, used, Append(out, fmt[i]))
    ELSE LET zero == i + 1 <= Len(fmt) /\ fmt[i + 1] = "0"
             w    == ParseWidth(fmt, IF zero THEN i + 2 ELSE i + 1, 0)
             j    == w[1]
         IN  IF j > Len(fmt)
             THEN [err |-> "value_error", out |-> out]
             ELSE IF fmt[j] = "%"
             THEN PyFormatFrom(fmt, j + 1, n, used, Append(out, "%"))
             ELSE IF fmt[j] \in {"d", "i", "u", "s"}
             THEN IF used
                  THEN [err |-> "not_enough", out |-> out]
                  ELSE PyFormatFrom(fmt, j + 1, n, TRUE,
                           out \o PadLeft(IntToStr(n), w[2],
                                          IF zero THEN "0" ELSE " "))
             ELSE [err |-> "value_error", out |-> out]

PyFormat(fmt, n) == PyFormatFrom(fmt, 1, n, FALSE, <<>>)

(***************************************************************************)
(* The strings of the model.                                               *)
(***************************************************************************)
RECURSIVE Repeat(_, _)
Repeat(ch, n) == IF n = 0 THEN <<>> ELSE <<ch>> \o Repeat(ch, n - 1)

\* the id the provider gives its n-th resource: shaped like a UUID
Id(n) ==
    Repeat("0", 8) \o <<"-">> \o Repeat("0", 4) \o <<"-">> \o Repeat("0", 4)
        \o <<"-">> \o Repeat("0", 4) \o <<"-">> \o PadLeft(IntToStr(n), 12, "0")

\* str(uuid4()).replace('-', '')[:10]: ten hexadecimal digits, here those of
\* a counter (the names the server module gives boot volumes)
RandomName(n) == PadLeft(IntToStr(n), 10, "0")

N_D == <<"D">>
N_web == <<"w", "e", "b">>
N_web01 == <<"w", "e", "b", "0", "1">>
N_web02 == <<"w", "e", "b", "0", "2">>
N_web02d == <<"w", "e", "b", "%", "0", "2", "d">>
N_eth0 == <<"e", "t", "h", "0">>
\* a string shaped like a UUID that is nobody's id
N_uuid ==
    Repeat("a", 8) \o <<"-">> \o Repeat("b", 4) \o <<"-">> \o Repeat("c", 4)
        \o <<"-">> \o Repeat("d", 4) \o <<"-">> \o Repeat("e", 12)

\* a parameter that was not given (None)
None == <<>>

(***************************************************************************)
(* The provider: the vendor API's resources, in the order its list calls  *)
(* return them.                                                            *)
(***************************************************************************)
NoId == <<>>

EmptyProvider ==
    [dcs |-> <<>>, servers |-> <<>>, volumes |-> <<>>, nics |-> <<>>,
     lans |-> <<>>, nextId |-> 1]

\* the datacenter D with the servers, volumes and NICs of the given names;
\* every server has a boot volume, the NICs are on the first server
RECURSIVE AddServers(_, _)
AddServers(p, names) ==
    IF names = <<>> THEN p
    ELSE AddServers(
           [p EXCEPT
              !.volumes = Append(@, [id |-> Id(p.nextId), dc |-> p.dcs[1].id,
                                     name |-> RandomName(p.nextId),
                                     server |-> Id(p.nextId + 1),
                                     size |-> 50]),
              !.servers = Append(@, [id |-> Id(p.nextId + 1), dc |-> p.dcs[1].id,
                                     name |-> Head(names),
                                     bootVolume |-> Id(p.nextId),
                                     cores |-> 4, cpuFamily |-> DefaultCpuFamily,
                                     allow_reboot |-> "None",
                                     vmState |-> "RUNNING",
                                     pending |-> "RUNNING"]),
              !.nextId = @ + 2],
           Tail(names))

RECURSIVE AddVolumes(_, _)
AddVolumes(p, names) ==
    IF names = <<>> THEN p
    ELSE AddVolumes(
           [p EXCEPT
              !.volumes = Append(@, [id |-> Id(p.nextId), dc |-> p.dcs[1].id,
                                     name |-> Head(names), server |-> NoId,
                                     size |-> 50]),
              !.nextId = @ + 1],
           Tail(names))

RECURSIVE AddNics(_, _)
AddNics(p, names) ==
    IF names = <<>> \/ p.servers = <<>> THEN p
    ELSE AddNics(
           [p EXCEPT
              !.nics = Append(@, [id |-> Id(p.nextId), server |-> p.servers[1].id,
                                  name |-> Head(names), lan |-> 1]),
              !.nextId = @ + 1],
           Tail(names))

ProviderWith(serverNames, volumeNames, nicNames) ==
    AddNics(
      AddVolumes(
        AddServers([EmptyProvider EXCEPT
                      !.dcs = <<[id |-> Id(1), name |-> N_D]>>, !.nextId = 2],
                   serverNames),
        volumeNames),
      nicNames)

\* the names resources may carry before the first invocation
NameLists == {<<>>, <<N_web01>>, <<N_uuid>>, <<N_web01, N_uuid>>}

NicNameLists == {<<>>, <<N_eth0>>, <<N_uuid>>, <<N_eth0, N_uuid>>}

InitialProviders(m) ==
    {EmptyProvider} \cup
    CASE m = "server" -> {ProviderWith(s, <<>>, <<>>) : s \in NameLists}
      [] m = "volume" -> {ProviderWith(<<N_web01>>, v, <<>>) : v \in NameLists}
      [] m = "nic"    -> {ProviderWith(<<N_web01, N_uuid>>, <<>>, n) : n \in NicNameLists}

(***************************************************************************)
(* The vendor API.  A call on a parent that does not exist, or on a       *)
(* resource that does not exist, raises (the API answers 404 and the SDK  *)
(* raises).  A created resource is listed from the create call on; the    *)
(* request that creates it completes, or fails, later.                     *)
(***************************************************************************)
Min(S) == CHOOSE k \in S : \A j \in S : k <= j

DcExists(p, dcId) == \E k \in 1..Len(p.dcs) : p.dcs[k].id = dcId

ServerExists(p, dcId, serverId) ==
    \E k \in 1..Len(p.servers) :
        p.servers[k].id = serverId /\ p.servers[k].dc = dcId

VolumeExists(p, dcId, volumeId) ==
    \E k \in 1..Len(p.volumes) :
        p.volumes[k].id = volumeId /\ p.volumes[k].dc = dcId

NicExists(p, dcId, serverId, nicId) ==
    /\ ServerExists(p, dcId, serverId)
    /\ \E k \in 1..Len(p.nics) :
           p.nics[k].id = nicId /\ p.nics[k].server = serverId

\* client.client_list_datacenters()['items']
client_list_datacenters(p) == p.dcs

\* client.client_list_servers(datacenter_id)['items'], for a datacenter that exists
client_list_servers(p, dcId) == LET InDc(s) == s.dc = dcId IN SelectSeq(p.servers, InDc)

\* client.client_list_volumes(datacenter_id)['items'], for a datacenter that exists
client_list_volumes(p, dcId) == LET InDc(v) == v.dc = dcId IN SelectSeq(p.volumes, InDc)

\* client.client_list_nics(datacenter_id, server_id)['items'], for a server that exists
client_list_nics(p, serverId) == LET On(n) == n.server = serverId IN SelectSeq(p.nics, On)

\* client.client_get_server(datacenter_id, server_id), for a server that exists
client_get_server(p, serverId) ==
    p.servers[CHOOSE k \in 1..Len(p.servers) : p.servers[k].id = serverId]

\* client.client_get_nic(datacenter_id, server_id, nic_id), for a NIC that exists
client_get_nic(p, nicId) == p.nics[CHOOSE k \in 1..Len(p.nics) : p.nics[k].id = nicId]

\* client.client_create_datacenter(datacenter=Datacenter(name=name))
client_create_datacenter(p, name) ==
    [p EXCEPT !.dcs = Append(@, [id |-> Id(p.nextId), name |-> name]),
              !.nextId = @ + 2]

\* client.list_lans(datacenter_id)['items'], for a datacenter that exists
client_list_lans(p, dcId) == LET InDc(l) == l.dc = dcId IN SelectSeq(p.lans, InDc)

\* client.create_lan(datacenter_id, LAN(name=name, public=public)): the LANs
\* of a datacenter are numbered from 1, and the id is a string of digits
client_create_lan(p, dcId, name, public) ==
    [p EXCEPT
       !.lans = Append(@, [id |-> IntToStr(Len(client_list_lans(p, dcId)) + 1),
                           dc |-> dcId, name |-> name, public |-> public]),
       !.nextId = @ + 2]

\* the response of create_lan on provider p
LanResponse(p, dcId) ==
    [id |-> IntToStr(Len(client_list_lans(p, dcId)) + 1),
     requestId |-> p.nextId + 1]

\* client.client_create_server(datacenter_id, Server(name=name, create_volumes=[v],
\* nics=nics)): the server, its boot volume, named by a random string, and
\* one NIC, named by a random string, for each LAN number of nics
client_create_server(p, dcId, name, cores, cpu_family, nics) ==
    [p EXCEPT
       !.servers = Append(@, [id |-> Id(p.nextId), dc |-> dcId, name |-> name,
                              bootVolume |-> Id(p.nextId + 2),
                              cores |-> cores, cpuFamily |-> cpu_family,
                              allow_reboot |-> "None",
                              vmState |-> "RUNNING", pending |-> "RUNNING"]),
       !.volumes = Append(@, [id |-> Id(p.nextId + 2), dc |-> dcId,
                              name |-> RandomName(p.nextId + 2),
                              server |-> Id(p.nextId), size |-> DefaultSize]),
       !.nics = @ \o [k \in 1..Len(nics) |->
                        [id |-> Id(p.nextId + 2 + k), server |-> Id(p.nextId),
                         name |-> RandomName(p.nextId + 2 + k),
                         lan |-> nics[k]]],
       !.nextId = @ + 3 + Len(nics)]

\* client.client_create_volume(datacenter_id, Volume(name=name))
client_create_volume(p, dcId, name, size) ==
    [p EXCEPT
       !.volumes = Append(@, [id |-> Id(p.nextId), dc |-> dcId, name |-> name,
                              server |-> NoId, size |-> size]),
       !.nextId = @ + 2]

\* client.client_create_nic(datacenter_id, server_id, NIC(name=name, lan=lan))
client_create_nic(p, serverId, name, lan) ==
    [p EXCEPT
       !.nics = Append(@, [id |-> Id(p.nextId), server |-> serverId,
                           name |-> name, lan |-> lan]),
       !.nextId = @ + 2]

\* client.client_attach_volume(datacenter_id, server_id, volume_id)
client_attach_volume(p, serverId, volumeId) ==
    [p EXCEPT !.volumes =
        [k \in 1..Len(@) |->
            IF @[k].id = volumeId THEN [@[k] EXCEPT !.server = serverId] ELSE @[k]]]

\* client.client_delete_server(datacenter_id, server_id): the server and its NICs
client_delete_server(p, serverId) ==
    LET KeepS(s) == s.id # serverId
        KeepN(n) == n.server # serverId
    IN  [p EXCEPT !.servers = SelectSeq(@, KeepS), !.nics = SelectSeq(@, KeepN)]

\* client.client_delete_volume(datacenter_id, volume_id)
client_delete_volume(p, volumeId) ==
    LET Keep(v) == v.id # volumeId IN [p EXCEPT !.volumes = SelectSeq(@, Keep)]

\* client.client_delete_nic(datacenter_id, server_id, nic_id)
client_delete_nic(p, nicId) ==
    LET Keep(n) == n.id # nicId IN [p EXCEPT !.nics = SelectSeq(@, Keep)]

\* client.update_server(datacenter_id, server_id, cores=cores,
\* cpu_family=cpu_family, allow_reboot=allow_reboot, ...); the server keeps
\* the allow_reboot of the last request it got
client_update_server(p, serverId, cores, cpu_family, allow_reboot) ==
    [p EXCEPT !.servers =
        [k \in 1..Len(@) |->
            IF @[k].id = serverId
            THEN [@[k] EXCEPT !.cores = cores, !.cpuFamily = cpu_family,
                              !.allow_reboot = allow_reboot]
            ELSE @[k]],
              !.nextId = @ + 2]

\* client.update_volume(datacenter_id, volume_id, size=size, bus=bus)
client_update_volume(p, volumeId, size) ==
    [p EXCEPT !.volumes =
        [k \in 1..Len(@) |->
            IF @[k].id = volumeId THEN [@[k] EXCEPT !.size = size] ELSE @[k]],
              !.nextId = @ + 2]

\* client.update_nic(datacenter, server, nic_id, lan=lan, ...)
client_update_nic(p, nicId, lan) ==
    [p EXCEPT !.nics =
        [k \in 1..Len(@) |->
            IF @[k].id = nicId THEN [@[k] EXCEPT !.lan = lan] ELSE @[k]],
              !.nextId = @ + 2]

\* client.start_server / client.stop_server (datacenter_id, server_id): the
\* provider accepts the request; the server changes its vmState later
client_startstop_server(p, serverId, vmState) ==
    [p EXCEPT !.servers =
        [k \in 1..Len(@) |->
            IF @[k].id = serverId THEN [@[k] EXCEPT !.pending = vmState]
            ELSE @[k]]]

\* the k-th server of the provider reaches the power state asked of it
PowerChange(p, k) == [p EXCEPT !.servers[k].vmState = p.servers[k].pending]

\* the response of an update call on provider p for the resource id
UpdateResponse(p, id) == [id |-> id, requestId |-> p.nextId + 1]

\* the response of a create call on provider p: the new resource's id and the
\* id of the request that creates it
Response(p) == [id |-> Id(p.nextId), requestId |-> p.nextId + 1]

\* the statuses a request may report next
NextStatus(st) ==
    CASE st = "QUEUED"  -> {"QUEUED", "RUNNING", "DONE", "FAILED"}
      [] st = "RUNNING" -> {"RUNNING", "DONE", "FAILED"}
      [] OTHER          -> {st}

(***************************************************************************)
(* Identity resolvers.                                                     *)
(***************************************************************************)
\* the first item (its index, 0 when none) with  identity in (name, id)
FirstByNameOrId(items, identity) ==
    LET S == {k \in 1..Len(items) :
                 identity = items[k].name \/ identity = items[k].id}
    IN  IF S = {} THEN 0 ELSE Min(S)

\* a lookup by name that finds nothing
FirstByName_FindsNothing(items, identity) == 0

\* the first item (its index, 0 when none) with  identity == name
FirstByName(items, identity) ==
    LET S == {k \in 1..Len(items) : identity = items[k].name}
    IN  IF S = {} THEN 0 ELSE Min(S)

\* a datacenter lookup that finds nothing
_get_datacenter_id_FindsNothing(datacenters, identity) == None

_get_datacenter_id(datacenters, identity) ==
    LET k == FirstByNameOrId(datacenters, identity)
    IN  IF k = 0 THEN None ELSE datacenters[k].id

_get_server_id(servers, identity) ==
    LET k == FirstByNameOrId(servers, identity)
    IN  IF k = 0 THEN None ELSE servers[k].id

\* the resource itself; NoResource for Python's None
NoResource == [id |-> NoId]

\* a lookup that finds nothing
_get_instance_FindsNothing(instance_list, identity) == NoResource

_get_instance(instance_list, identity) ==
    LET k == FirstByNameOrId(instance_list, identity)
    IN  IF k = 0 THEN NoResource ELSE instance_list[k]

_get_instance_id(instance_list, identity) ==
    LET k == FirstByNameOrId(instance_list, identity)
    IN  IF k = 0 THEN None ELSE instance_list[k].id

(***************************************************************************)
(* State.                                                                  *)
(***************************************************************************)
VARIABLES
    module,      \* the module the task uses: "server", "volume" or "nic"
    pb,          \* the provider's resources
    pb0,         \* the provider's resources when the invocation started
    params,      \* module.params of the invocation
    pc,          \* where the invocation stands
    runs,        \* invocations started so far
    loc,         \* the local variables of the running handler
    w,           \* the running call of _wait_for_completion
    req,         \* the provider's status of the request last issued
    calls,       \* the API calls of this invocation, in order
    resolved,    \* the resources this invocation's resolvers selected
    result,      \* what the invocation reported: exit_json or fail_json
    prevResult   \* what the invocation before it reported

vars == <<module, pb, pb0, params, pc, runs, loc, w, req, calls, resolved,
          result, prevResult>>

Modules == {"server", "volume", "nic"}

NoParams ==
    [state |-> "present", datacenter |-> None, server |-> None, name |-> None,
     count |-> 1, auto_increment |-> TRUE, instance_ids |-> <<>>,
     wait |-> TRUE, wait_timeout |-> 0, check_mode |-> FALSE,
     remove_boot_volume |-> TRUE, lan |-> 0,
     cores |-> DefaultCores, size |-> DefaultSize, omitted |-> {},
     cpu_family |-> DefaultCpuFamily, assign_public_ip |-> FALSE,
     network |-> None]   \* network: the lan parameter of the server module

NoLoc ==
    [datacenter |-> None, server |-> None, names |-> <<>>, idx |-> 0,
     list |-> <<>>, out |-> <<>>, changed |-> FALSE,
     response |-> [id |-> NoId, requestId |-> 0], now |-> 0, deadline |-> 0]

NoWait ==
    [requestId |-> 0, deadline |-> 0, now |-> 0, polls |-> <<>>, msg |-> "",
     ret |-> "", catch |-> "", outcome |-> "NONE"]

NoException == [text |-> "", op |-> "", requestId |-> 0]

\* an exception raised by the SDK for a resource the provider does not have
NotFound(op) == [text |-> "Resource does not exist", op |-> op, requestId |-> 0]

NoResult ==
    [kind |-> "none", changed |-> FALSE, failed |-> FALSE, instances |-> <<>>,
     nic |-> NoId, msg |-> "", exception |-> NoException]

\* module.exit_json(changed=..., instance_ids={'instances': [...]}, nic=...)
ExitJson(changed, instances, nic) ==
    [kind |-> "exit", changed |-> changed, failed |-> FALSE,
     instances |-> instances, nic |-> nic, msg |-> "",
     exception |-> NoException]

\* module.fail_json(msg=msg % to_native(e))
FailJson(msg, e) ==
    [kind |-> "fail", changed |-> FALSE, failed |-> TRUE, instances |-> <<>>,
     nic |-> NoId, msg |-> msg, exception |-> e]

Call(op, arg) == [op |-> op, arg |-> arg]

Resolved(resolver, identity, id) ==
    [resolver |-> resolver, identity |-> identity, id |-> id]

\* the ids of a list of resources: [i['id'] for i in resources]
Ids(resources) == [k \in 1..Len(resources) |-> resources[k].id]

WaitTimeouts == {0, 12}

(***************************************************************************)
(* Initial state: some provider, and a task not yet run.                   *)
(***************************************************************************)
Init ==
    /\ module \in Modules
    /\ pb \in InitialProviders(module)
    /\ pb0 = pb
    /\ params = NoParams
    /\ pc = "idle"
    /\ runs = 0
    /\ loc = NoLoc
    /\ w = NoWait
    /\ req = [id |-> 0, status |-> "DONE"]
    /\ calls = <<>>
    /\ resolved = <<>>
    /\ result = NoResult
    /\ prevResult = NoResult

(***************************************************************************)
(* _wait_for_completion(client, promise, wait_timeout, msg).               *)
(* Time is counted from the call on: wait_timeout = time.time() + timeout *)
(* is the deadline, now is time.time().  ret is where the caller goes on  *)
(* when the waiter returns, catch the fail_json message of the except     *)
(* clause that catches what the waiter raises.                             *)
(***************************************************************************)
\* the waiter's state once it is called; an empty promise returns at once
StartWait(promise, wait_timeout, msg, ret, catch) ==
    [requestId |-> promise.requestId, deadline |-> 0 + wait_timeout, now |-> 0,
     polls |-> <<>>, msg |-> msg, ret |-> ret, catch |-> catch,
     outcome |-> IF promise.requestId = 0 THEN "RETURNED" ELSE "PENDING"]

\* where the caller stands once _wait_for_completion is called
WaitPc(promise, ret) == IF promise.requestId = 0 THEN ret ELSE "wait"

OperationFailed(msg, requestId) ==
    [text |-> "Request failed to complete", op |-> msg, requestId |-> requestId]

TimedOut(msg, requestId) ==
    [text |-> "Timed out waiting for async operation", op |-> msg,
     requestId |-> requestId]

\* a loop condition that still holds at the deadline
WaiterLoops_AtDeadline == w.deadline >= w.now

\* the loop condition  while wait_timeout > time.time()
WaiterLoops == w.deadline > w.now

\* a branch that forgets that DONE ends the wait
PollBranch_IgnoresDone(status) ==
    IF status = "FAILED" THEN "raise" ELSE "loop"

\* a branch that forgets that FAILED ends the wait
PollBranch_IgnoresFailed(status) ==
    IF status = "DONE" THEN "return" ELSE "loop"

\* the branch on operation_result['metadata']['status']
PollBranch(status) ==
    IF status = "DONE" THEN "return"
    ELSE IF status = "FAILED" THEN "raise"
    ELSE "loop"

\* one turn of the loop: time.sleep(5), client.get_request(...), and the
\* branch on the status it reports
WaiterPoll ==
    /\ pc = "wait"
    /\ WaiterLoops
    /\ \E latency \in 0..MaxLatency, status \in NextStatus(req.status) :
          /\ req' = [req EXCEPT !.status = status]
          /\ calls' = Append(calls, Call("get_request", w.requestId))
          /\ LET polled == [w EXCEPT !.now = @ + SleepInterval + latency,
                                     !.polls = Append(@, status)]
             IN  CASE PollBranch(status) = "return" ->
                        /\ w' = [polled EXCEPT !.outcome = "DONE"]
                        /\ pc' = w.ret
                        /\ UNCHANGED result
                   [] PollBranch(status) = "raise" ->
                        /\ w' = [polled EXCEPT !.outcome = "FAILED"]
                        /\ pc' = "done"
                        /\ result' = FailJson(w.catch,
                                         OperationFailed(w.msg, w.requestId))
                   [] OTHER ->
                        /\ w' = polled
                        /\ UNCHANGED <<pc, result>>
    /\ UNCHANGED <<module, pb, pb0, params, runs, loc, resolved, prevResult>>

\* a waiter whose loop falls through without raising
WaiterTimeout_Returns ==
    /\ pc = "wait"
    /\ ~WaiterLoops
    /\ w' = [w EXCEPT !.outcome = "RETURNED"]
    /\ pc' = w.ret
    /\ UNCHANGED <<module, pb, pb0, params, runs, loc, req, calls, resolved,
                   result, prevResult>>

\* a caller that reports the timeout and removes what the request created
WaiterTimeout_RollsBack ==
    /\ pc = "wait"
    /\ ~WaiterLoops
    /\ w' = [w EXCEPT !.outcome = "TIMED_OUT"]
    /\ pc' = "done"
    /\ result' = FailJson(w.catch, TimedOut(w.msg, w.requestId))
    /\ pb' = client_delete_volume(client_delete_server(pb, loc.response.id),
                                  loc.response.id)
    /\ UNCHANGED <<module, pb0, params, runs, loc, req, calls, resolved,
                   prevResult>>

\* a caller that reports the timeout and then waits for the request again
WaiterTimeout_Retries ==
    /\ pc = "wait"
    /\ ~WaiterLoops
    /\ w' = [w EXCEPT !.now = 0, !.deadline = SleepInterval + MaxLatency + 1]
    /\ result' = FailJson(w.catch, TimedOut(w.msg, w.requestId))
    /\ UNCHANGED <<module, pb, pb0, params, pc, runs, loc, req, calls, resolved,
                   prevResult>>

\* the loop ends with the deadline reached: raise Exception('Timed out ...')
WaiterTimeout ==
    /\ pc = "wait"
    /\ ~WaiterLoops
    /\ w' = [w EXCEPT !.outcome = "TIMED_OUT"]
    /\ pc' = "done"
    /\ result' = FailJson(w.catch, TimedOut(w.msg, w.requestId))
    /\ UNCHANGED <<module, pb, pb0, params, runs, loc, req, calls, resolved,
                   prevResult>>

(***************************************************************************)
(* Name generation (auto_increment) of create_virtual_machine and         *)
(* create_volume.                                                          *)
(***************************************************************************)
\* the sequence a, a+1, ..., b-1: list(xrange(a, b))
Range(a, b) == [k \in 1..(IF b > a THEN b - a ELSE 0) |-> a + k - 1]

\* seq[:n] for n >= 0
Take(seq, n) == SubSeq(seq, 1, IF n < Len(seq) THEN n ELSE Len(seq))

\* numbers = set(): the numbers in use; nothing is ever added to it
numbers == {}

\* a names list numbered from 0
GeneratedNames_FromZero(name, count) ==
    LET probe == PyFormat(name, 0)
        template == IF probe.err = "not_all" THEN name \o <<"%", "d">> ELSE name
        numbers_to_use == Take(Range(0, count + Cardinality(numbers)), count)
    IN  [err   |-> IF probe.err = "not_all" THEN "none" ELSE probe.err,
         names |-> [k \in 1..Len(numbers_to_use) |->
                       PyFormat(template, numbers_to_use[k]).out]]

\* the names list of create_virtual_machine / create_volume when
\* auto_increment is set.  err: "none", or the exception of  name % 0
GeneratedNames(name, count) ==
    LET probe == PyFormat(name, 0)
        \* name = '%s%%d' % name
        template == IF probe.err = "not_all" THEN name \o <<"%", "d">> ELSE name
        number_range == Range(count_offset,
                              count_offset + count + Cardinality(numbers))
        Free(n) == n \notin numbers
        available_numbers == SelectSeq(number_range, Free)
        numbers_to_use == Take(available_numbers, count)
    IN  [err   |-> IF probe.err = "not_all" THEN "none" ELSE probe.err,
         names |-> [k \in 1..Len(numbers_to_use) |->
                       PyFormat(template, numbers_to_use[k]).out]]

(***************************************************************************)
(* Starting an invocation.                                                 *)
(***************************************************************************)
DcIdentities == {N_D, Id(1)}

NameTemplates == {N_web, N_web02d}

\* instance_ids: names, ids of the first resources of the initial provider,
\* and strings that match nothing
InstanceIdLists(first) ==
    {<<>>, <<N_web01>>, <<N_web02>>, <<N_uuid>>, <<first>>, <<N_web01, first>>}

\* wait and wait_timeout
WaitChoices == {<<FALSE, 0>>} \cup {<<TRUE, t>> : t \in WaitTimeouts}

ServerParams ==
    {[NoParams EXCEPT !.state = "present", !.datacenter = d, !.name = n,
                      !.count = c, !.auto_increment = a, !.wait_timeout = t,
                      !.check_mode = cm] :
        d \in DcIdentities, n \in NameTemplates, c \in 0..MaxCount,
        a \in BOOLEAN, t \in WaitTimeouts, cm \in BOOLEAN}
    \cup
    {[NoParams EXCEPT !.state = "absent", !.datacenter = d,
                      !.instance_ids = ids, !.remove_boot_volume = r,
                      !.check_mode = cm] :
        d \in DcIdentities, ids \in InstanceIdLists(Id(3)), r \in BOOLEAN,
        cm \in BOOLEAN}

VolumeParams ==
    {[NoParams EXCEPT !.state = "present", !.datacenter = d, !.name = n,
                      !.count = c, !.auto_increment = a, !.wait = wt[1],
                      !.wait_timeout = wt[2], !.check_mode = cm,
                      !.server = sv] :
        d \in DcIdentities, n \in NameTemplates, c \in 0..MaxCount,
        a \in BOOLEAN, wt \in WaitChoices, cm \in BOOLEAN,
        sv \in {None, N_web01}}
    \cup
    {[NoParams EXCEPT !.state = "absent", !.datacenter = d,
                      !.instance_ids = ids, !.check_mode = cm] :
        d \in DcIdentities, ids \in InstanceIdLists(Id(4)), cm \in BOOLEAN}

NicParams ==
    {[NoParams EXCEPT !.state = st, !.datacenter = d, !.server = sv,
                      !.name = n, !.lan = 1, !.wait = wt[1],
                      !.wait_timeout = wt[2], !.check_mode = cm] :
        st \in {"present", "absent"}, d \in DcIdentities,
        sv \in {N_web01, Id(3), N_uuid}, n \in {N_eth0, N_uuid, Id(6)},
        wt \in WaitChoices, cm \in BOOLEAN}

ParamsOf(m) ==
    CASE m = "server" -> ServerParams
      [] m = "volume" -> VolumeParams
      [] m = "nic"    -> NicParams

\* the first run of the task
Invoke ==
    /\ pc = "idle"
    /\ runs = 0
    /\ params' \in ParamsOf(module)
    /\ runs' = 1
    /\ pc' = "start"
    /\ pb0' = pb
    /\ UNCHANGED <<module, pb, loc, w, req, calls, resolved, result, prevResult>>

\* the task run again, with the same declaration
Reinvoke ==
    /\ pc = "done"
    /\ runs < MaxRuns
    /\ runs' = runs + 1
    /\ pc' = "start"
    /\ pb0' = pb
    /\ prevResult' = result
    /\ result' = NoResult
    /\ loc' = NoLoc
    /\ w' = NoWait
    /\ calls' = <<>>
    /\ resolved' = <<>>
    /\ UNCHANGED <<module, pb, params, req>>

(***************************************************************************)
(* profitbricks (servers), state=present: main and create_virtual_machine. *)
(***************************************************************************)
\* main up to the first wait of create_virtual_machine
ServerPresentMain ==
    /\ pc = "start" /\ module = "server" /\ params.state = "present"
    /\ IF params.name = None
       THEN /\ result' = FailJson("name parameter is required for new instance",
                                  NoException)
            /\ pc' = "done"
            /\ UNCHANGED <<pb, loc, w, req, calls, resolved>>
       ELSE IF params.check_mode
       THEN /\ result' = ExitJson(TRUE, <<>>, NoId)
            /\ pc' = "done"
            /\ UNCHANGED <<pb, loc, w, req, calls, resolved>>
       ELSE LET datacenter_list == client_list_datacenters(pb)
                datacenter_id == _get_datacenter_id(datacenter_list,
                                                    params.datacenter)
            IN  IF datacenter_id # None
                THEN /\ loc' = [loc EXCEPT !.datacenter = datacenter_id]
                     /\ calls' = Append(calls, Call("list_datacenters", None))
                     /\ resolved' = Append(resolved,
                           Resolved("_get_datacenter_id", params.datacenter,
                                    datacenter_id))
                     /\ pc' = "cvm_names"
                     /\ UNCHANGED <<pb, w, req, result>>
                ELSE \* _create_datacenter and, in it, the first wait
                     LET datacenter_response == Response(pb)
                     IN  /\ pb' = client_create_datacenter(pb, params.datacenter)
                         /\ req' = [id |-> datacenter_response.requestId,
                                    status |-> "QUEUED"]
                         /\ calls' = calls \o
                               <<Call("list_datacenters", None),
                                 Call("create_datacenter", params.datacenter)>>
                         /\ loc' = [loc EXCEPT !.response = datacenter_response]
                         /\ w' = StartWait(datacenter_response,
                                     params.wait_timeout, "_create_datacenter",
                                     "cvm_datacenter_created",
                                     "failed to create the new server(s)")
                         /\ pc' = WaitPc(datacenter_response,
                                         "cvm_datacenter_created")
                         /\ UNCHANGED <<resolved, result>>
    /\ UNCHANGED <<module, pb0, params, runs, prevResult>>

\* create_virtual_machine after _create_datacenter returned: the second wait
\* for the same request
CvmDatacenterCreated ==
    /\ pc = "cvm_datacenter_created"
    /\ loc' = [loc EXCEPT !.datacenter = loc.response.id]
    /\ w' = StartWait(loc.response, params.wait_timeout,
                      "create_virtual_machine", "cvm_names",
                      "failed to set instance state")
    /\ pc' = WaitPc(loc.response, "cvm_names")
    /\ UNCHANGED <<module, pb, pb0, params, runs, req, calls, resolved, result,
                   prevResult>>

\* create_virtual_machine: the names, and the prefetched list of servers
CvmNames ==
    /\ pc = "cvm_names"
    /\ w' = NoWait
    /\ LET gen == IF params.auto_increment
                  THEN GeneratedNames(params.name, params.count)
                  ELSE [err |-> "none", names |-> <<params.name>>]
       IN  IF gen.err # "none"
           THEN /\ result' =
                     IF gen.err = "value_error"
                     THEN FailJson("failed to set instance state",
                            [text |-> "ValueError", op |-> "", requestId |-> 0])
                     ELSE FailJson("not enough arguments for format string",
                                   NoException)
                /\ pc' = "done"
                /\ UNCHANGED <<loc, calls>>
           ELSE /\ loc' = [loc EXCEPT !.names = gen.names, !.idx = 1,
                                      !.list = client_list_servers(pb, loc.datacenter)]
                /\ calls' = Append(calls, Call("list_servers", loc.datacenter))
                /\ pc' = "cvm_loop"
                /\ UNCHANGED result
    /\ UNCHANGED <<module, pb, pb0, params, runs, req, resolved, prevResult>>

\* matched_lan = None
NoLan == [id |-> None]

\* the name of the LAN _create_machine creates: LAN(name='public', public=True)
N_public == <<"p", "u", "b", "l", "i", "c">>

\* elan['properties'].get(pn, None)
LanProperty(elan, pn) ==
    CASE pn = "name"   -> elan.name
      [] pn = "public" -> elan.public

\* a _get_lan_by_id_or_properties that matches no LAN
_get_lan_by_id_or_properties_FindsNothing(networks, id, query) == NoLan

\* _get_lan_by_id_or_properties(networks, id=None, **kwargs), query being the
\* pairs of kwargs: the first LAN whose id is id, or whose properties are
\* all those of the query.  The ids are strings, and so is id: str() leaves
\* them as they are
_get_lan_by_id_or_properties(networks, id, query) ==
    IF id = None /\ query = {} THEN NoLan
    ELSE LET Matches(elan) ==
                 \/ id # None /\ elan.id = id
                 \/ \A q \in query : LanProperty(elan, q[1]) = q[2]
             hits == {k \in 1..Len(networks) : Matches(networks[k])}
         IN  IF hits = {} THEN NoLan ELSE networks[Min(hits)]

\* the public LAN of the datacenter, as _create_machine looks it up
public_lan(p, datacenter) ==
    _get_lan_by_id_or_properties(client_list_lans(p, datacenter), None,
                                 {<<"public", TRUE>>})

\* a NIC list that gets a NIC for the lan parameter whatever it holds
MachineNics_AlwaysAppends(networks, public_ip_lan_id) ==
    LET matching_lan == _get_lan_by_id_or_properties(networks, params.network,
                            {<<"name", params.network>>})
    IN  [err  |-> params.network # None /\ matching_lan = NoLan,
         nics |-> (IF params.assign_public_ip
                   THEN <<StrToInt(public_ip_lan_id)>> ELSE <<>>)
                  \o (IF params.network # None /\ matching_lan # NoLan
                      THEN <<StrToInt(matching_lan.id)>> ELSE <<>>)]

\* the list nics of _create_machine, as the LAN numbers of its NICs: one on
\* the public LAN if assign_public_ip, and one on the LAN of the lan
\* parameter unless a NIC of the list is on it; err when the lan parameter
\* matches no LAN (matching_lan['id'] of None raises TypeError)
MachineNics(networks, public_ip_lan_id) ==
    LET nics == IF params.assign_public_ip
                THEN <<StrToInt(public_ip_lan_id)>> ELSE <<>>
        matching_lan == _get_lan_by_id_or_properties(networks, params.network,
                            {<<"name", params.network>>})
    IN  IF params.network = None THEN [err |-> FALSE, nics |-> nics]
        ELSE IF matching_lan = NoLan THEN [err |-> TRUE, nics |-> nics]
        ELSE IF \/ ~\E k \in 1..Len(nics) : nics[k] = StrToInt(matching_lan.id)
                \/ Len(nics) < 1
        THEN [err |-> FALSE, nics |-> Append(nics, StrToInt(matching_lan.id))]
        ELSE [err |-> FALSE, nics |-> nics]

\* _create_machine from  if lan is not None  up to the wait for the server
CreateServerCall(name, public_ip_lan_id, called) ==
    LET built == MachineNics(client_list_lans(pb, loc.datacenter),
                             public_ip_lan_id)
        listed == IF params.network = None THEN called
                  ELSE Append(called, Call("list_lans", loc.datacenter))
        create_server_response == Response(pb)
    IN  IF built.err
        THEN /\ result' = FailJson("failed to set instance state",
                            [text |-> "TypeError", op |-> "", requestId |-> 0])
             /\ pc' = "done"
             /\ calls' = listed
             /\ UNCHANGED <<pb, req, loc, w>>
        ELSE /\ pb' = client_create_server(pb, loc.datacenter, name,
                          params.cores, params.cpu_family, built.nics)
             /\ req' = [id |-> create_server_response.requestId,
                        status |-> "QUEUED"]
             /\ calls' = Append(listed, Call("create_server", name))
             /\ loc' = [loc EXCEPT !.response = create_server_response]
             /\ w' = StartWait(create_server_response,
                         params.wait_timeout, "create_virtual_machine",
                         "cvm_machine_created",
                         "failed to create the new server")
             /\ pc' = WaitPc(create_server_response, "cvm_machine_created")
             /\ UNCHANGED result

\* one turn of the loop over names: the server exists, or _create_machine
\* up to its first wait
CvmLoop ==
    /\ pc = "cvm_loop"
    /\ loc.idx <= Len(loc.names)
    /\ LET name == loc.names[loc.idx]
           server == _get_instance(loc.list, name)
       IN  IF server # NoResource
           THEN /\ loc' = [loc EXCEPT !.out = Append(@, server), !.idx = @ + 1]
                /\ resolved' = Append(resolved,
                                      Resolved("_get_instance", name, server.id))
                /\ UNCHANGED <<pb, w, req, calls, pc, result>>
           ELSE IF ~params.assign_public_ip
           THEN /\ CreateServerCall(name, None, calls)
                /\ UNCHANGED resolved
           ELSE IF public_lan(pb, loc.datacenter) # NoLan
           THEN /\ CreateServerCall(name, public_lan(pb, loc.datacenter).id,
                       Append(calls, Call("list_lans", loc.datacenter)))
                /\ UNCHANGED resolved
           ELSE LET lan_response == LanResponse(pb, loc.datacenter)
                IN  /\ pb' = client_create_lan(pb, loc.datacenter, N_public,
                                               TRUE)
                    /\ req' = [id |-> lan_response.requestId,
                               status |-> "QUEUED"]
                    /\ calls' = calls \o
                                  <<Call("list_lans", loc.datacenter),
                                    Call("create_lan", N_public)>>
                    /\ loc' = [loc EXCEPT !.response = lan_response]
                    /\ w' = StartWait(lan_response, params.wait_timeout,
                                "_create_machine", "cvm_lan_created",
                                "failed to set instance state")
                    /\ pc' = WaitPc(lan_response, "cvm_lan_created")
                    /\ UNCHANGED <<resolved, result>>
    /\ UNCHANGED <<module, pb0, params, runs, prevResult>>

\* _create_machine after the wait for the LAN it created
CvmLanCreated ==
    /\ pc = "cvm_lan_created"
    /\ CreateServerCall(loc.names[loc.idx], loc.response.id, calls)
    /\ UNCHANGED <<module, pb0, params, runs, resolved, prevResult>>

\* _create_machine after its wait (get_server), and the rest of the turn
CvmMachineCreated ==
    /\ pc = "cvm_machine_created"
    /\ w' = NoWait
    /\ IF ~ServerExists(pb, loc.datacenter, loc.response.id)
       THEN /\ result' = FailJson("failed to create the new server",
                                  NotFound("get_server"))
            /\ pc' = "done"
            /\ UNCHANGED loc
       ELSE /\ loc' = [loc EXCEPT
                         !.out = Append(@, client_get_server(pb, loc.response.id)),
                         !.changed = TRUE, !.idx = @ + 1]
            /\ pc' = "cvm_loop"
            /\ UNCHANGED result
    /\ calls' = calls \o <<Call("get_server", loc.response.id),
                           Call("list_nics", loc.response.id)>>
    /\ UNCHANGED <<module, pb, pb0, params, runs, req, resolved, prevResult>>

\* the loop is over: create_virtual_machine returns and main exits
CvmFinish ==
    /\ pc = "cvm_loop"
    /\ loc.idx > Len(loc.names)
    /\ result' = ExitJson(loc.changed, Ids(loc.out), NoId)
    /\ pc' = "done"
    /\ UNCHANGED <<module, pb, pb0, params, runs, loc, w, req, calls, resolved,
                   prevResult>>

(***************************************************************************)
(* profitbricks (servers), state=absent: main and remove_virtual_machine.  *)
(* No call of this path is waited for, so it is one step.  A handler that *)
(* loops threads the record  [pb, calls, resolved, changed, result]; the  *)
(* loop stops as soon as result is set (exit_json and fail_json leave the *)
(* process).                                                               *)
(***************************************************************************)
LoopState ==
    [pb |-> pb, calls |-> calls, resolved |-> resolved, changed |-> FALSE,
     result |-> NoResult, out |-> <<>>, reboot |-> "None"]

\* a _remove_boot_volume that leaves the boot volume alone
_remove_boot_volume_DeletesNothing(st, datacenter_id, server_id) == st

\* _remove_boot_volume(module, client, datacenter_id, server_id)
_remove_boot_volume(st, datacenter_id, server_id) ==
    LET called == Append(st.calls, Call("get_server", server_id))
        msg == "failed to remove the server's boot volume"
    IN  IF ~ServerExists(st.pb, datacenter_id, server_id)
        THEN [st EXCEPT !.calls = called,
                        !.result = FailJson(msg, NotFound("get_server"))]
        ELSE LET volume_id == client_get_server(st.pb, server_id).bootVolume
                 deleting == Append(called, Call("delete_volume", volume_id))
             IN  IF ~VolumeExists(st.pb, datacenter_id, volume_id)
                 THEN [st EXCEPT !.calls = deleting,
                          !.result = FailJson(msg, NotFound("delete_volume"))]
                 ELSE [st EXCEPT !.calls = deleting,
                                 !.pb = client_delete_volume(st.pb, volume_id)]

RECURSIVE RemoveLoop(_, _, _, _)
\* the loop  for instance in instance_ids  of remove_virtual_machine, from
\* the i-th instance on
RemoveLoop(st, datacenter_id, server_list, i) ==
    IF i > Len(params.instance_ids)
    THEN [st EXCEPT !.result = ExitJson(st.changed, <<>>, NoId)]
    ELSE
    LET instance == params.instance_ids[i]
        server_id == _get_server_id(server_list, instance)
    IN  IF server_id = None
        THEN RemoveLoop(st, datacenter_id, server_list, i + 1)
        ELSE
        LET found == [st EXCEPT !.resolved = Append(@,
                         Resolved("_get_server_id", instance, server_id))]
        IN  IF params.check_mode
            THEN [found EXCEPT !.result = ExitJson(TRUE, <<>>, NoId)]
            ELSE
            LET st1 == IF params.remove_boot_volume
                       THEN _remove_boot_volume(found, datacenter_id, server_id)
                       ELSE found
                deleting == Append(st1.calls, Call("delete_server", server_id))
            IN  IF st1.result # NoResult
                THEN st1
                ELSE IF ~ServerExists(st1.pb, datacenter_id, server_id)
                THEN [st1 EXCEPT !.calls = deleting,
                         !.result = FailJson(
                             "failed to terminate the virtual server",
                             NotFound("delete_server"))]
                ELSE RemoveLoop(
                       [st1 EXCEPT !.calls = deleting,
                                   !.pb = client_delete_server(st1.pb, server_id),
                                   !.changed = TRUE],
                       datacenter_id, server_list, i + 1)

\* main's checks, then remove_virtual_machine
remove_virtual_machine ==
    IF params.datacenter = None
    THEN [LoopState EXCEPT !.result = FailJson(
            "datacenter parameter is required for running or stopping machines.",
            NoException)]
    ELSE IF Len(params.instance_ids) < 1
    THEN [LoopState EXCEPT !.result = FailJson(
            "instance_ids should be a list of virtual machine ids or names, aborting",
            NoException)]
    ELSE
    LET datacenter_id == _get_datacenter_id(client_list_datacenters(pb),
                                            params.datacenter)
        listed == [LoopState EXCEPT
                     !.calls = Append(@, Call("list_datacenters", None))]
    IN  IF datacenter_id = None
        THEN [listed EXCEPT !.result =
                 FailJson("Virtual data center not found.", NoException)]
        ELSE RemoveLoop(
               [listed EXCEPT
                  !.calls = Append(@, Call("list_servers", datacenter_id)),
                  !.resolved = Append(@, Resolved("_get_datacenter_id",
                                          params.datacenter, datacenter_id))],
               datacenter_id, client_list_servers(pb, datacenter_id), 1)

ServerAbsent ==
    /\ pc = "start" /\ module = "server" /\ params.state = "absent"
    /\ LET st == remove_virtual_machine
       IN  /\ pb' = st.pb
           /\ calls' = st.calls
           /\ resolved' = st.resolved
           /\ result' = st.result
    /\ pc' = "done"
    /\ UNCHANGED <<module, pb0, params, runs, loc, w, req, prevResult>>

(***************************************************************************)
(* profitbricks_volume, state=present: main and create_volume.             *)
(***************************************************************************)
\* the loop  for d in datacenter_list['items']  of the volume module: the
\* first datacenter with  datacenter in [name, id]  (its id), or None
VolumeDatacenter(p, datacenter) ==
    LET k == FirstByNameOrId(client_list_datacenters(p), datacenter)
    IN  IF k = 0 THEN None ELSE client_list_datacenters(p)[k].id

\* the calls of that loop: list_datacenters, then get_datacenter for every
\* datacenter up to the match
RECURSIVE DatacenterScanCalls(_, _, _)
DatacenterScanCalls(dcs, k, last) ==
    IF k > last THEN <<>>
    ELSE <<Call("get_datacenter", dcs[k].id)>>
             \o DatacenterScanCalls(dcs, k + 1, last)

VolumeDatacenterCalls(p, datacenter) ==
    LET k == FirstByNameOrId(client_list_datacenters(p), datacenter)
    IN  <<Call("list_datacenters", None)>>
          \o DatacenterScanCalls(p.dcs, 1, IF k = 0 THEN Len(p.dcs) ELSE k)

\* main up to the loop over names of create_volume
VolumePresentMain ==
    /\ pc = "start" /\ module = "volume" /\ params.state = "present"
    /\ IF params.datacenter = None
       THEN /\ result' = FailJson(
                  "datacenter parameter is required for new instance",
                  NoException)
            /\ pc' = "done"
            /\ UNCHANGED <<loc, calls, resolved>>
       ELSE IF params.name = None
       THEN /\ result' = FailJson("name parameter is required for new instance",
                                  NoException)
            /\ pc' = "done"
            /\ UNCHANGED <<loc, calls, resolved>>
       ELSE
       LET datacenter == VolumeDatacenter(pb, params.datacenter)
           scanned == VolumeDatacenterCalls(pb, params.datacenter)
           gen == IF params.auto_increment
                  THEN GeneratedNames(params.name, params.count)
                  ELSE [err |-> "none",
                        names |-> [k \in 1..params.count |-> params.name]]
       IN  IF datacenter = None
           THEN /\ result' = FailJson("datacenter could not be found.",
                                      NoException)
                /\ pc' = "done"
                /\ calls' = calls \o scanned
                /\ UNCHANGED <<loc, resolved>>
           ELSE IF gen.err # "none"
           THEN /\ result' = FailJson("failed to set volume state",
                        [text |-> gen.err, op |-> "", requestId |-> 0])
                /\ pc' = "done"
                /\ calls' = calls \o scanned
                /\ UNCHANGED <<loc, resolved>>
           ELSE /\ loc' = [loc EXCEPT !.datacenter = datacenter,
                                      !.names = gen.names, !.idx = 1,
                                      !.list = client_list_volumes(pb, datacenter)]
                /\ calls' = calls \o scanned
                               \o <<Call("list_volumes", datacenter)>>
                /\ resolved' = Append(resolved,
                      Resolved("create_volume", params.datacenter, datacenter))
                /\ pc' = "cv_loop"
                /\ UNCHANGED result
    /\ UNCHANGED <<module, pb, pb0, params, runs, w, req, prevResult>>

\* one turn of the loop over names: the volume exists, or _create_volume up
\* to its wait
CvLoop ==
    /\ pc = "cv_loop"
    /\ loc.idx <= Len(loc.names)
    /\ LET name == loc.names[loc.idx]
           existing == _get_instance_id(loc.list, name)
       IN  IF existing # None
           THEN /\ loc' = [loc EXCEPT !.idx = @ + 1]
                /\ resolved' = Append(resolved,
                                  Resolved("_get_instance_id", name, existing))
                /\ UNCHANGED <<pb, w, req, calls, pc, result>>
           ELSE IF params.check_mode
           THEN /\ result' = ExitJson(TRUE, <<>>, NoId)
                /\ pc' = "done"
                /\ UNCHANGED <<pb, loc, w, req, calls, resolved>>
           ELSE LET volume_response == Response(pb)
                IN  /\ pb' = client_create_volume(pb, loc.datacenter, name,
                                                     params.size)
                    /\ req' = [id |-> volume_response.requestId,
                               status |-> "QUEUED"]
                    /\ calls' = Append(calls, Call("create_volume", name))
                    /\ loc' = [loc EXCEPT !.response = volume_response]
                    /\ IF params.wait
                       THEN /\ w' = StartWait(volume_response,
                                       params.wait_timeout, "_create_volume",
                                       "cv_created",
                                       "failed to create the volume")
                            /\ pc' = WaitPc(volume_response, "cv_created")
                       ELSE /\ pc' = "cv_created"
                            /\ UNCHANGED w
                    /\ UNCHANGED <<resolved, result>>
    /\ UNCHANGED <<module, pb0, params, runs, prevResult>>

\* the server _attach_volume attaches to: the first server of the name, or
\* the string itself
AttachServer(p, datacenter, server) ==
    IF uuid_match(server) THEN server
    ELSE LET k == FirstByName(client_list_servers(p, datacenter), server)
         IN  IF k = 0 THEN server ELSE client_list_servers(p, datacenter)[k].id

\* the rest of the turn: volumes.append, _attach_volume, changed = True
CvCreated ==
    /\ pc = "cv_created"
    /\ w' = NoWait
    /\ IF params.server = None
       THEN /\ loc' = [loc EXCEPT !.out = Append(@, loc.response),
                                  !.changed = TRUE, !.idx = @ + 1]
            /\ pc' = "cv_loop"
            /\ UNCHANGED <<pb, calls, resolved, result>>
       ELSE
       LET server == AttachServer(pb, loc.datacenter, params.server)
           called == calls
              \o (IF uuid_match(params.server) THEN <<>>
                  ELSE <<Call("list_servers", loc.datacenter)>>)
              \o <<Call("attach_volume", loc.response.id)>>
       IN  /\ calls' = called
           /\ IF ServerExists(pb, loc.datacenter, server)
              THEN /\ pb' = client_attach_volume(pb, server, loc.response.id)
                   /\ loc' = [loc EXCEPT !.out = Append(@, loc.response),
                                         !.changed = TRUE, !.idx = @ + 1]
                   /\ resolved' =
                         IF uuid_match(params.server) THEN resolved
                         ELSE Append(resolved, Resolved("_attach_volume",
                                                   params.server, server))
                   /\ pc' = "cv_loop"
                   /\ UNCHANGED result
              ELSE /\ result' = FailJson("failed to attach volume",
                                         NotFound("attach_volume"))
                   /\ pc' = "done"
                   /\ UNCHANGED <<pb, loc, resolved>>
    /\ UNCHANGED <<module, pb0, params, runs, req, prevResult>>

\* the loop is over: create_volume returns and main exits
CvFinish ==
    /\ pc = "cv_loop"
    /\ loc.idx > Len(loc.names)
    /\ result' = ExitJson(loc.changed, Ids(loc.out), NoId)
    /\ pc' = "done"
    /\ UNCHANGED <<module, pb, pb0, params, runs, loc, w, req, calls, resolved,
                   prevResult>>

(***************************************************************************)
(* profitbricks_volume, state=absent: main and delete_volume.              *)
(***************************************************************************)
\* a _delete_volume that does not look at check_mode
_delete_volume_IgnoresCheckMode(st, datacenter, volume) ==
    IF ~VolumeExists(st.pb, datacenter, volume)
    THEN [st EXCEPT !.calls = Append(@, Call("delete_volume", volume)),
                    !.result = FailJson("failed to remove the volume",
                                        NotFound("delete_volume"))]
    ELSE [st EXCEPT !.calls = Append(@, Call("delete_volume", volume)),
                    !.pb = client_delete_volume(st.pb, volume),
                    !.changed = TRUE]

\* a _delete_volume whose except clause lets the error pass
_delete_volume_SwallowsError(st, datacenter, volume) ==
    IF params.check_mode
    THEN [st EXCEPT !.result = ExitJson(TRUE, <<>>, NoId)]
    ELSE [st EXCEPT !.calls = Append(@, Call("delete_volume", volume)),
                    !.pb = client_delete_volume(st.pb, volume),
                    !.changed = TRUE]

\* _delete_volume(module, client, datacenter, volume), then changed = True
_delete_volume(st, datacenter, volume) ==
    IF params.check_mode
    THEN [st EXCEPT !.result = ExitJson(TRUE, <<>>, NoId)]
    ELSE LET deleting == Append(st.calls, Call("delete_volume", volume))
         IN  IF ~VolumeExists(st.pb, datacenter, volume)
             THEN [st EXCEPT !.calls = deleting,
                      !.result = FailJson("failed to remove the volume",
                                          NotFound("delete_volume"))]
             ELSE [st EXCEPT !.calls = deleting,
                             !.pb = client_delete_volume(st.pb, volume),
                             !.changed = TRUE]

RECURSIVE DeleteNamed(_, _, _, _, _)
\* the loop  for v in volumes['items']  of delete_volume, from the k-th on:
\* every volume of the name is deleted
DeleteNamed(st, datacenter, volumes, n, k) ==
    IF k > Len(volumes) \/ st.result # NoResult THEN st
    ELSE IF n = volumes[k].name
    THEN DeleteNamed(
           _delete_volume(
             [st EXCEPT !.resolved = Append(@,
                 Resolved("delete_volume", n, volumes[k].id))],
             datacenter, volumes[k].id),
           datacenter, volumes, n, k + 1)
    ELSE DeleteNamed(st, datacenter, volumes, n, k + 1)

RECURSIVE DeleteLoop(_, _, _)
\* the loop  for n in instance_ids  of delete_volume, from the i-th on
DeleteLoop(st, datacenter, i) ==
    IF st.result # NoResult THEN st
    ELSE IF i > Len(params.instance_ids)
    THEN [st EXCEPT !.result = ExitJson(st.changed, <<>>, NoId)]
    ELSE
    LET n == params.instance_ids[i]
    IN  IF uuid_match(n)
        THEN DeleteLoop(_delete_volume(st, datacenter, n), datacenter, i + 1)
        ELSE LET listing == [st EXCEPT !.calls =
                                Append(@, Call("list_volumes", datacenter))]
             IN  IF ~DcExists(st.pb, datacenter)
                 THEN [listing EXCEPT !.result =
                          FailJson("failed to set volume state",
                                   NotFound("list_volumes"))]
                 ELSE DeleteLoop(
                        DeleteNamed(listing, datacenter,
                                    client_list_volumes(st.pb, datacenter), n, 1),
                        datacenter, i + 1)

\* main's checks, then delete_volume
delete_volume ==
    IF params.datacenter = None
    THEN [LoopState EXCEPT !.result = FailJson(
            "datacenter parameter is required for creating, updating or deleting volumes.",
            NoException)]
    ELSE IF Len(params.instance_ids) < 1
    THEN [LoopState EXCEPT !.result = FailJson(
            "instance_ids should be a list of volume ids or names, aborting",
            NoException)]
    ELSE IF uuid_match(params.datacenter)
    THEN DeleteLoop(LoopState, params.datacenter, 1)
    ELSE
    LET found == VolumeDatacenter(pb, params.datacenter)
        scanned == [LoopState EXCEPT
            !.calls = @ \o VolumeDatacenterCalls(pb, params.datacenter),
            !.resolved = IF found = None THEN @
                         ELSE Append(@, Resolved("delete_volume.datacenter",
                                                 params.datacenter, found))]
    IN  DeleteLoop(scanned,
                   IF found = None THEN params.datacenter ELSE found, 1)

VolumeAbsent ==
    /\ pc = "start" /\ module = "volume" /\ params.state = "absent"
    /\ LET st == delete_volume
       IN  /\ pb' = st.pb
           /\ calls' = st.calls
           /\ resolved' = st.resolved
           /\ result' = st.result
    /\ pc' = "done"
    /\ UNCHANGED <<module, pb0, params, runs, loc, w, req, prevResult>>

(***************************************************************************)
(* profitbricks_nic: the inline lookups of datacenter, server and NIC.     *)
(* A lookup that finds nothing leaves the string as it is, and the string *)
(* is then passed to the API as an id.                                     *)
(***************************************************************************)
\* the id of the first item of the name (there is one)
IdOfFirstNamed(items, name) == items[FirstByName(items, name)].id

\* "Locate UUID for Datacenter": a string shaped like a UUID is taken as the
\* id; else the first datacenter of that name
NicDatacenter(p, datacenter) ==
    IF uuid_match(datacenter) THEN datacenter
    ELSE LET k == FirstByName(client_list_datacenters(p), datacenter)
         IN  IF k = 0 THEN datacenter ELSE client_list_datacenters(p)[k].id

NicDatacenterCalls(p, datacenter) ==
    IF uuid_match(datacenter) THEN <<>>
    ELSE LET k == FirstByName(client_list_datacenters(p), datacenter)
         IN  <<Call("list_datacenters", None)>>
               \o DatacenterScanCalls(p.dcs, 1, IF k = 0 THEN Len(p.dcs) ELSE k)

\* "Locate UUID for Server", in the datacenter dc: the first server of the
\* name.  st.result is set when list_servers raised; found tells whether
\* the server was found by name (server_found of delete_nic)
LocateServerIn(st, dc, server) ==
    IF uuid_match(server)
    THEN [st |-> st, datacenter |-> dc, server |-> server, found |-> FALSE]
    ELSE IF ~DcExists(st.pb, dc)
    THEN [st |-> [st EXCEPT !.calls = Append(@, Call("list_servers", dc)),
                            !.result = FailJson("failed to set nic state",
                                                NotFound("list_servers"))],
          datacenter |-> dc, server |-> server, found |-> FALSE]
    ELSE IF FirstByName(client_list_servers(st.pb, dc), server) = 0
    THEN [st |-> [st EXCEPT !.calls = Append(@, Call("list_servers", dc))],
          datacenter |-> dc, server |-> server, found |-> FALSE]
    ELSE [st |-> [st EXCEPT
                    !.calls = Append(@, Call("list_servers", dc)),
                    !.resolved = Append(@, Resolved("nic.server", server,
                        IdOfFirstNamed(
                            client_list_servers(st.pb, dc), server)))],
          datacenter |-> dc,
          server |-> IdOfFirstNamed(client_list_servers(st.pb, dc),
                                            server),
          found |-> TRUE]

\* the state after "Locate UUID for Datacenter" and "Locate UUID for Server"
LocateServer(st, datacenter, server) ==
    LocateServerIn(
      [st EXCEPT
         !.calls = @ \o NicDatacenterCalls(st.pb, datacenter),
         !.resolved =
            IF uuid_match(datacenter)
               \/ NicDatacenter(st.pb, datacenter) = datacenter
            THEN @
            ELSE Append(@, Resolved("nic.datacenter", datacenter,
                                    NicDatacenter(st.pb, datacenter)))],
      NicDatacenter(st.pb, datacenter), server)

(***************************************************************************)
(* profitbricks_nic, state=present: main and create_nic.                   *)
(***************************************************************************)
\* main's checks of the parameters every state needs
NicRequired ==
    IF params.datacenter = None THEN "datacenter parameter is required"
    ELSE IF params.server = None THEN "server parameter is required"
    ELSE ""

\* create_nic from nic_list = client.list_nics(...) on, with the datacenter
\* and the server located
CreateNicLocated(located, listing) ==
    IF located.st.result # NoResult
    THEN /\ result' = located.st.result
         /\ pc' = "done"
         /\ calls' = located.st.calls
         /\ resolved' = located.st.resolved
         /\ UNCHANGED <<pb, loc, w, req>>
    ELSE IF ~ServerExists(pb, located.datacenter, located.server)
    THEN /\ result' = FailJson("failed to set nic state", NotFound("list_nics"))
         /\ pc' = "done"
         /\ calls' = listing
         /\ resolved' = located.st.resolved
         /\ UNCHANGED <<pb, loc, w, req>>
    ELSE
    \E nic_list \in {client_list_nics(pb, located.server)} :
    \E k \in {FirstByName(nic_list, params.name)} :
        \* should_change = nic is None, that is k = 0
        IF params.check_mode
        THEN /\ result' = ExitJson(k = 0, <<>>, NoId)
             /\ pc' = "done"
             /\ calls' = listing
             /\ resolved' = located.st.resolved
             /\ UNCHANGED <<pb, loc, w, req>>
        ELSE IF k # 0
        THEN /\ result' = ExitJson(FALSE, <<>>, nic_list[k].id)
             /\ pc' = "done"
             /\ calls' = listing
             /\ resolved' = Append(located.st.resolved,
                   Resolved("create_nic", params.name, nic_list[k].id))
             /\ UNCHANGED <<pb, loc, w, req>>
        ELSE /\ pb' = client_create_nic(pb, located.server, params.name,
                                        params.lan)
             /\ req' = [id |-> Response(pb).requestId, status |-> "QUEUED"]
             /\ calls' = Append(listing, Call("create_nic", params.name))
             /\ resolved' = located.st.resolved
             /\ loc' = [loc EXCEPT !.datacenter = located.datacenter,
                                   !.server = located.server,
                                   !.response = Response(pb)]
             /\ IF params.wait
                THEN /\ w' = StartWait(Response(pb), params.wait_timeout,
                                  "create_nic", "cn_created",
                                  "failed to create the NIC")
                     /\ pc' = WaitPc(Response(pb), "cn_created")
                ELSE /\ pc' = "cn_created"
                     /\ UNCHANGED w
             /\ UNCHANGED result

\* main and create_nic up to the wait
NicPresentMain ==
    /\ pc = "start" /\ module = "nic" /\ params.state = "present"
    /\ IF NicRequired # ""
       THEN /\ result' = FailJson(NicRequired, NoException)
            /\ pc' = "done"
            /\ UNCHANGED <<pb, loc, w, req, calls, resolved>>
       ELSE IF params.lan = 0
       THEN /\ result' = FailJson("lan parameter is required", NoException)
            /\ pc' = "done"
            /\ UNCHANGED <<pb, loc, w, req, calls, resolved>>
       ELSE \E located \in {LocateServer(LoopState, params.datacenter,
                                         params.server)} :
               CreateNicLocated(located,
                   Append(located.st.calls, Call("list_nics", located.server)))
    /\ UNCHANGED <<module, pb0, params, runs, prevResult>>

\* create_nic after the wait: "Refresh NIC properties", return, and main exits
CnCreated ==
    /\ pc = "cn_created"
    /\ w' = NoWait
    /\ calls' = Append(calls, Call("get_nic", loc.response.id))
    /\ result' = IF NicExists(pb, loc.datacenter, loc.server, loc.response.id)
                 THEN ExitJson(TRUE, <<>>, client_get_nic(pb, loc.response.id).id)
                 ELSE FailJson("failed to create the NIC", NotFound("get_nic"))
    /\ pc' = "done"
    /\ UNCHANGED <<module, pb, pb0, params, runs, loc, req, resolved, prevResult>>

(***************************************************************************)
(* profitbricks_nic, state=absent: main and delete_nic.                    *)
(***************************************************************************)
\* "Locate UUID for NIC" and the delete call, with the server located and
\* nic_list the server's NICs; k is the first NIC of the name (0: none) and
\* name the id that results
DeleteNicNamed(st, located, nic_list, k, name) ==
    IF ~uuid_match(params.name) /\ k = 0
    THEN [st EXCEPT !.result = ExitJson(FALSE, <<>>, NoId)]
    ELSE IF params.check_mode
    THEN [st EXCEPT !.result = ExitJson(TRUE, <<>>, NoId)]
    ELSE IF ~NicExists(st.pb, located.datacenter, located.server, name)
    THEN [st EXCEPT !.calls = Append(@, Call("delete_nic", name)),
                    !.result = FailJson("failed to remove the NIC",
                                        NotFound("delete_nic"))]
    ELSE [st EXCEPT !.calls = Append(@, Call("delete_nic", name)),
                    !.pb = client_delete_nic(st.pb, name),
                    !.changed = TRUE,
                    !.result = ExitJson(TRUE, <<>>, NoId)]

\* delete_nic with the datacenter and the server located
DeleteNicLocated(located) ==
    IF located.st.result # NoResult THEN located.st
    ELSE IF ~uuid_match(params.server) /\ ~located.found
    THEN [located.st EXCEPT !.result = ExitJson(FALSE, <<>>, NoId)]
    ELSE IF uuid_match(params.name)
    THEN DeleteNicNamed(located.st, located, <<>>, 0, params.name)
    ELSE IF ~ServerExists(located.st.pb, located.datacenter, located.server)
    THEN [located.st EXCEPT
            !.calls = Append(@, Call("list_nics", located.server)),
            !.result = FailJson("failed to set nic state",
                                NotFound("list_nics"))]
    ELSE IF FirstByName(client_list_nics(located.st.pb, located.server),
                        params.name) = 0
    THEN DeleteNicNamed(
           [located.st EXCEPT
              !.calls = Append(@, Call("list_nics", located.server))],
           located, <<>>, 0, params.name)
    ELSE DeleteNicNamed(
           [located.st EXCEPT
              !.calls = Append(@, Call("list_nics", located.server)),
              !.resolved = Append(@, Resolved("delete_nic", params.name,
                  IdOfFirstNamed(
                      client_list_nics(located.st.pb, located.server),
                      params.name)))],
           located, client_list_nics(located.st.pb, located.server), 1,
           IdOfFirstNamed(
               client_list_nics(located.st.pb, located.server), params.name))

\* main's checks, then delete_nic
delete_nic ==
    IF NicRequired # ""
    THEN [LoopState EXCEPT !.result = FailJson(NicRequired, NoException)]
    ELSE IF params.name = None
    THEN [LoopState EXCEPT !.result =
             FailJson("name parameter is required", NoException)]
    ELSE DeleteNicLocated(LocateServer(LoopState, params.datacenter,
                                       params.server))

NicAbsent ==
    /\ pc = "start" /\ module = "nic" /\ params.state = "absent"
    /\ LET st == delete_nic
       IN  /\ pb' = st.pb
           /\ calls' = st.calls
           /\ resolved' = st.resolved
           /\ result' = st.result
    /\ pc' = "done"
    /\ UNCHANGED <<module, pb0, params, runs, loc, w, req, prevResult>>

Next ==
    \/ Invoke
    \/ Reinvoke
    \/ WaiterPoll
    \/ WaiterTimeout
    \/ ServerPresentMain
    \/ CvmDatacenterCreated
    \/ CvmNames
    \/ CvmLoop
    \/ CvmMachineCreated
    \/ CvmFinish
    \/ ServerAbsent
    \/ VolumePresentMain
    \/ CvLoop
    \/ CvCreated
    \/ CvFinish
    \/ VolumeAbsent
    \/ NicPresentMain
    \/ CnCreated
    \/ NicAbsent

Spec == Init /\ [][Next]_vars

\* the process runs on: a sleep ends, a poll is answered, a loop that is over
\* is left
\* one provider for each module: the waiter does not look at the resources
FairProvider(m) ==
    CASE m = "server" -> EmptyProvider
      [] m = "volume" -> ProviderWith(<<N_web01>>, <<>>, <<>>)
      [] m = "nic"    -> ProviderWith(<<N_web01, N_uuid>>, <<>>, <<>>)

FairInit == Init /\ pb = FairProvider(module)

FairSpec ==
    /\ FairInit /\ [][Next]_vars
    /\ WF_vars(WaiterPoll) /\ WF_vars(WaiterTimeout)

(***************************************************************************)
(* The other values of the state parameter: update, running, stopped, and *)
(* values main has no branch for.                                          *)
(***************************************************************************)
\* a value of state that main has no branch for
OtherState == "restarted"

\* the values of state main has a branch for
KnownStates(m) ==
    IF m = "server" THEN {"present", "absent", "running", "stopped", "update"}
    ELSE {"present", "absent", "update"}

\* instance_ids of an update, a start or a stop
TargetIdLists(first) ==
    InstanceIdLists(first)
        \cup {<<N_web01, N_uuid>>, <<N_web02, N_web01>>, <<N_web01, N_web02>>}

\* the lan parameter of the server module: none, the number of a LAN, the
\* name of a LAN, or a string that matches no LAN
LanIdentities == {None, <<"1">>, <<"2">>, N_public, <<"9">>}

\* a field the declaration gives, or leaves out (the argument_spec default)
Given(field, default, value) ==
    {[omitted |-> {field}, value |-> default], [omitted |-> {}, value |-> value]}

ServerStateParams ==
    {[NoParams EXCEPT !.state = "update", !.datacenter = d,
                      !.instance_ids = ids, !.cores = c.value,
                      !.omitted = c.omitted, !.check_mode = cm] :
        d \in DcIdentities \cup {None}, ids \in TargetIdLists(Id(3)),
        c \in Given("cores", DefaultCores, 8), cm \in BOOLEAN}
    \cup
    {[NoParams EXCEPT !.state = st, !.datacenter = d, !.instance_ids = ids,
                      !.wait = wt[1], !.wait_timeout = wt[2],
                      !.check_mode = cm] :
        st \in {"running", "stopped"}, d \in {N_D, None},
        ids \in TargetIdLists(Id(3)), wt \in WaitChoices, cm \in BOOLEAN}
    \cup
    {[NoParams EXCEPT !.state = OtherState, !.datacenter = N_D,
                      !.instance_ids = ids] : ids \in {<<>>, <<N_web01>>}}
    \cup
    {[NoParams EXCEPT !.state = "present", !.datacenter = N_D,
                      !.name = N_web02d, !.count = c, !.wait = wt,
                      !.wait_timeout = 12, !.assign_public_ip = a,
                      !.network = l] :
        c \in 1..2, wt \in BOOLEAN, a \in BOOLEAN, l \in LanIdentities}

VolumeStateParams ==
    {[NoParams EXCEPT !.state = "update", !.datacenter = d,
                      !.instance_ids = ids, !.size = z.value,
                      !.omitted = z.omitted, !.wait = wt[1],
                      !.wait_timeout = wt[2], !.check_mode = cm] :
        d \in DcIdentities \cup {None}, ids \in TargetIdLists(Id(4)),
        z \in Given("size", DefaultSize, 20), wt \in WaitChoices,
        cm \in BOOLEAN}
    \cup
    {[NoParams EXCEPT !.state = OtherState, !.datacenter = N_D,
                      !.instance_ids = ids] : ids \in {<<>>, <<N_web01>>}}

NicStateParams ==
    {[NoParams EXCEPT !.state = "update", !.datacenter = d, !.server = sv,
                      !.name = n, !.lan = l.value, !.omitted = l.omitted,
                      !.wait = wt[1], !.wait_timeout = wt[2],
                      !.check_mode = cm] :
        d \in DcIdentities, sv \in {N_web01, Id(3), N_uuid},
        n \in {N_eth0, N_uuid, Id(6)}, l \in Given("lan", 0, 2),
        wt \in WaitChoices, cm \in BOOLEAN}
    \cup
    {[NoParams EXCEPT !.state = OtherState, !.datacenter = d,
                      !.server = N_web01, !.name = N_eth0] :
        d \in {N_D, None}}

StateParamsOf(m) ==
    CASE m = "server" -> ServerStateParams
      [] m = "volume" -> VolumeStateParams
      [] m = "nic"    -> NicStateParams

\* the first run of a task whose state is not present or absent
InvokeState ==
    /\ pc = "idle"
    /\ runs = 0
    /\ params' \in StateParamsOf(module)
    /\ runs' = 1
    /\ pc' = "start"
    /\ pb0' = pb
    /\ UNCHANGED <<module, pb, loc, w, req, calls, resolved, result, prevResult>>

\* main with a state none of its branches tests for: the if/elif chain has no
\* else, and main returns
MainOtherState ==
    /\ pc = "start"
    /\ params.state \notin KnownStates(module)
    /\ result' = IF module = "nic" /\ NicRequired # ""
                 THEN FailJson(NicRequired, NoException)
                 ELSE result
    /\ pc' = "done"
    /\ UNCHANGED <<module, pb, pb0, params, runs, loc, w, req, calls, resolved,
                   prevResult>>

\* allow_reboot at the update of a server: set to True once a server's
\* cpuFamily is not the one asked for, and never set back
allow_reboot(st, server) ==
    IF params.cpu_family # server.cpuFamily THEN "True" ELSE st.reboot

RECURSIVE UpdateServerLoop(_, _, _, _)
\* the loop  for instance in instance_ids  of update_server, from the i-th on
UpdateServerLoop(st, datacenter_id, server_list, i) ==
    IF i > Len(params.instance_ids)
    THEN [st EXCEPT !.result = ExitJson(TRUE, st.out, NoId)]
    ELSE
    LET instance == params.instance_ids[i]
        k == FirstByNameOrId(server_list, instance)
    IN  IF k = 0
        THEN [st EXCEPT !.result = FailJson("Server not found.", NoException)]
        ELSE IF params.check_mode
        THEN [st EXCEPT !.result = ExitJson(TRUE, <<>>, NoId)]
        ELSE IF ~ServerExists(st.pb, datacenter_id, server_list[k].id)
        THEN [st EXCEPT
                !.calls = Append(@, Call("update_server", server_list[k].id)),
                !.result = FailJson("failed to update the server",
                                    NotFound("update_server"))]
        ELSE UpdateServerLoop(
               [st EXCEPT
                  !.resolved = Append(@, Resolved("update_server", instance,
                                                  server_list[k].id)),
                  !.calls = Append(@, Call("update_server", server_list[k].id)),
                  !.pb = client_update_server(st.pb, server_list[k].id,
                                              params.cores, params.cpu_family,
                                              allow_reboot(st, server_list[k])),
                  !.reboot = allow_reboot(st, server_list[k]),
                  !.changed = TRUE,
                  !.out = Append(@, server_list[k].id)],
               datacenter_id, server_list, i + 1)

\* update_server(module, client)
update_server ==
    IF Len(params.instance_ids) < 1
    THEN [LoopState EXCEPT !.result = FailJson(
            "instance_ids should be a list of virtual machine ids or names, aborting",
            NoException)]
    ELSE
    LET datacenter_id == _get_datacenter_id(client_list_datacenters(pb),
                                            params.datacenter)
        listed == [LoopState EXCEPT
                     !.calls = Append(@, Call("list_datacenters", None))]
    IN  IF datacenter_id = None
        THEN [listed EXCEPT !.result =
                 FailJson("Virtual data center not found.", NoException)]
        ELSE UpdateServerLoop(
               [listed EXCEPT
                  !.calls = Append(@, Call("list_servers", datacenter_id)),
                  !.resolved = Append(@, Resolved("_get_datacenter_id",
                                          params.datacenter, datacenter_id))],
               datacenter_id, client_list_servers(pb, datacenter_id), 1)

\* main, state == 'update', of the server module
ServerUpdate ==
    /\ pc = "start" /\ module = "server" /\ params.state = "update"
    /\ LET st == update_server
       IN  /\ pb' = st.pb
           /\ calls' = st.calls
           /\ resolved' = st.resolved
           /\ result' = st.result
    /\ pc' = "done"
    /\ UNCHANGED <<module, pb0, params, runs, loc, w, req, prevResult>>

\* the provider carries out a start or a stop it accepted.  Only the wait of
\* startstop_machine reads vmState, so the step is taken during that wait
PowerStep ==
    /\ pc = "ss_wait"
    /\ \E k \in 1..Len(pb.servers) :
          /\ pb.servers[k].pending # pb.servers[k].vmState
          /\ pb' = PowerChange(pb, k)
    /\ UNCHANGED <<module, pb0, params, pc, runs, loc, w, req, calls, resolved,
                   result, prevResult>>

\* the vmState the provider reports for a server that was started or stopped
VmStateOf(state) == IF state = "running" THEN "RUNNING" ELSE "SHUTOFF"

RECURSIVE StartStopLoop(_, _, _, _)
\* the loop  for instance in instance_ids  of startstop_machine, from the
\* i-th on; an instance that is not found is passed over
StartStopLoop(st, datacenter_id, server_list, i) ==
    IF i > Len(params.instance_ids) THEN st
    ELSE
    LET instance == params.instance_ids[i]
        server_id == _get_server_id(server_list, instance)
    IN  IF server_id = None
        THEN StartStopLoop(st, datacenter_id, server_list, i + 1)
        ELSE IF params.check_mode
        THEN [st EXCEPT !.result = ExitJson(TRUE, <<>>, NoId)]
        ELSE
        LET op == IF params.state = "running" THEN "start_server"
                  ELSE "stop_server"
        IN  IF ~ServerExists(st.pb, datacenter_id, server_id)
            THEN [st EXCEPT
                    !.calls = Append(@, Call(op, server_id)),
                    !.result = FailJson(
                        "failed to start or stop the virtual machine",
                        NotFound(op))]
            ELSE StartStopLoop(
                   [st EXCEPT
                      !.resolved = Append(@, Resolved("_get_server_id",
                                                      instance, server_id)),
                      !.calls = Append(@, Call(op, server_id)),
                      !.pb = client_startstop_server(st.pb, server_id,
                                                     VmStateOf(params.state)),
                      !.changed = TRUE],
                   datacenter_id, server_list, i + 1)

\* main's check, then startstop_machine up to  if wait:
startstop_machine ==
    IF params.datacenter = None
    THEN [LoopState EXCEPT !.result = FailJson(
            "datacenter parameter is required for running or stopping machines.",
            NoException)]
    ELSE IF Len(params.instance_ids) < 1
    THEN [LoopState EXCEPT !.result = FailJson(
            "instance_ids should be a list of virtual machine ids or names, aborting",
            NoException)]
    ELSE
    LET datacenter_id == _get_datacenter_id(client_list_datacenters(pb),
                                            params.datacenter)
        listed == [LoopState EXCEPT
                     !.calls = Append(@, Call("list_datacenters", None))]
    IN  IF datacenter_id = None
        THEN [listed EXCEPT !.result =
                 FailJson("Virtual data center not found.", NoException)]
        ELSE StartStopLoop(
               [listed EXCEPT
                  !.calls = Append(@, Call("list_servers", datacenter_id)),
                  !.resolved = Append(@, Resolved("_get_datacenter_id",
                                          params.datacenter, datacenter_id))],
               datacenter_id, client_list_servers(pb, datacenter_id), 1)

\* main, state in ('running', 'stopped'): startstop_machine up to its wait
ServerStartStop ==
    /\ pc = "start" /\ module = "server"
    /\ params.state \in {"running", "stopped"}
    /\ \E st \in {startstop_machine} :
          /\ pb' = st.pb
          /\ calls' = st.calls
          /\ resolved' = st.resolved
          /\ IF st.result # NoResult
             THEN result' = st.result /\ pc' = "done" /\ UNCHANGED loc
             ELSE IF params.wait
             THEN /\ loc' = [loc EXCEPT
                               !.datacenter = st.resolved[1].id,
                               !.changed = st.changed, !.now = 0,
                               !.deadline = 0 + params.wait_timeout]
                  /\ pc' = "ss_wait"
                  /\ UNCHANGED result
             ELSE /\ result' = ExitJson(st.changed, <<>>, NoId)
                  /\ pc' = "done"
                  /\ UNCHANGED loc
    /\ UNCHANGED <<module, pb0, params, runs, w, req, prevResult>>

\* the servers of the datacenter whose vmState is the one asked for
matched_instances ==
    {k \in 1..Len(pb.servers) :
        /\ pb.servers[k].dc = loc.datacenter
        /\ pb.servers[k].vmState = VmStateOf(params.state)}

\* one turn of  while wait_timeout > time.time()  of startstop_machine
StartStopPoll ==
    /\ pc = "ss_wait"
    /\ loc.deadline > loc.now
    /\ calls' = Append(calls, Call("list_servers", loc.datacenter))
    /\ IF Cardinality(matched_instances) < Len(params.instance_ids)
       THEN \E latency \in 0..MaxLatency :
               /\ loc' = [loc EXCEPT !.now = @ + SleepInterval + latency]
               /\ UNCHANGED <<pc, result>>
       ELSE \* break, and then  if wait_timeout <= time.time()
            \E latency \in 0..MaxLatency :
               /\ result' = IF loc.deadline <= loc.now + latency
                             THEN FailJson(
                                    "wait for virtual machine state timeout",
                                    NoException)
                             ELSE ExitJson(loc.changed, <<>>, NoId)
               /\ pc' = "done"
               /\ UNCHANGED loc
    /\ UNCHANGED <<module, pb, pb0, params, runs, w, req, resolved, prevResult>>

\* the loop ends with the deadline reached: "waiting took too long"
StartStopTimeout ==
    /\ pc = "ss_wait"
    /\ ~(loc.deadline > loc.now)
    /\ result' = FailJson("wait for virtual machine state timeout", NoException)
    /\ pc' = "done"
    /\ UNCHANGED <<module, pb, pb0, params, runs, loc, w, req, calls, resolved,
                   prevResult>>

\* main, state == 'update', of the volume module, and update_volume up to
\* its loop over instance_ids
VolumeUpdateMain ==
    /\ pc = "start" /\ module = "volume" /\ params.state = "update"
    /\ calls' = calls \o VolumeDatacenterCalls(pb, params.datacenter)
    /\ \E found \in {VolumeDatacenter(pb, params.datacenter)} :
          IF found = None
          THEN /\ result' = FailJson("datacenter could not be found.",
                                     NoException)
               /\ pc' = "done"
               /\ UNCHANGED <<loc, resolved>>
          ELSE /\ loc' = [loc EXCEPT !.datacenter = found, !.idx = 1]
               /\ resolved' = Append(resolved,
                     Resolved("update_volume.datacenter", params.datacenter,
                              found))
               /\ pc' = "uv_loop"
               /\ UNCHANGED result
    /\ UNCHANGED <<module, pb, pb0, params, runs, w, req, prevResult>>

\* the ids of the volumes of the name, in the order of the list
RECURSIVE IdsOfNamed(_, _)
IdsOfNamed(items, name) ==
    IF items = <<>> THEN <<>>
    ELSE (IF name = Head(items).name THEN <<Head(items).id>> ELSE <<>>)
            \o IdsOfNamed(Tail(items), name)

\* one turn of  for n in instance_ids  up to the volumes it is to update: n
\* itself when it is shaped like a UUID, every volume of the name otherwise
UvLoop ==
    /\ pc = "uv_loop"
    /\ loc.idx <= Len(params.instance_ids)
    /\ LET n == params.instance_ids[loc.idx]
       IN  IF uuid_match(n)
           THEN /\ loc' = [loc EXCEPT !.list = <<n>>]
                /\ UNCHANGED calls
           ELSE /\ loc' = [loc EXCEPT !.list =
                     IdsOfNamed(client_list_volumes(pb, loc.datacenter), n)]
                /\ calls' = Append(calls, Call("list_volumes", loc.datacenter))
    /\ pc' = "uv_update"
    /\ UNCHANGED <<module, pb, pb0, params, runs, w, req, resolved, result,
                   prevResult>>

\* what Python raises for a local variable read before it is assigned
UnboundLocal(name) ==
    [text |-> "local variable referenced before assignment", op |-> name,
     requestId |-> 0]

\* _update_volume for the next volume of the turn, up to its wait; with none
\* left, volumes.append(update_response) and failed = False
UvUpdate ==
    /\ pc = "uv_update"
    /\ IF loc.list = <<>>
       THEN IF loc.response.id = NoId
            THEN /\ result' = FailJson("failed to update volume",
                                       UnboundLocal("update_response"))
                 /\ pc' = "done"
                 /\ UNCHANGED <<pb, loc, w, req, calls, resolved>>
            ELSE /\ loc' = [loc EXCEPT !.out = Append(@, loc.response),
                                       !.idx = @ + 1]
                 /\ pc' = "uv_loop"
                 /\ w' = NoWait
                 /\ UNCHANGED <<pb, req, calls, resolved, result>>
       ELSE
       LET volume == Head(loc.list)
           n == params.instance_ids[loc.idx]
       IN  IF params.check_mode
           THEN /\ result' = ExitJson(TRUE, <<>>, NoId)
                /\ pc' = "done"
                /\ UNCHANGED <<pb, loc, w, req, calls, resolved>>
           ELSE
           /\ calls' = Append(calls, Call("update_volume", volume))
           /\ IF ~VolumeExists(pb, loc.datacenter, volume)
              THEN /\ result' = FailJson("failed to update the volume",
                                         NotFound("update_volume"))
                   /\ pc' = "done"
                   /\ UNCHANGED <<pb, loc, w, req, resolved>>
              ELSE
              LET volume_response == UpdateResponse(pb, volume)
              IN  /\ pb' = client_update_volume(pb, volume, params.size)
                  /\ req' = [id |-> volume_response.requestId,
                             status |-> "QUEUED"]
                  /\ resolved' = IF uuid_match(n) THEN resolved
                                 ELSE Append(resolved,
                                        Resolved("update_volume", n, volume))
                  /\ loc' = [loc EXCEPT !.response = volume_response,
                                        !.list = Tail(@), !.changed = TRUE]
                  /\ IF params.wait
                     THEN /\ w' = StartWait(volume_response,
                                     params.wait_timeout, "_update_volume",
                                     "uv_update",
                                     "failed to update the volume")
                          /\ pc' = WaitPc(volume_response, "uv_update")
                     ELSE /\ pc' = "uv_update"
                          /\ w' = NoWait
                  /\ UNCHANGED result
    /\ UNCHANGED <<module, pb0, params, runs, prevResult>>

\* the loop is over: update_volume returns its results, 'failed' among them,
\* and main passes them to exit_json
UvFinish ==
    /\ pc = "uv_loop"
    /\ loc.idx > Len(params.instance_ids)
    /\ result' = [ExitJson(loc.changed, Ids(loc.out), NoId)
                     EXCEPT !.failed = (loc.out = <<>>)]
    /\ pc' = "done"
    /\ UNCHANGED <<module, pb, pb0, params, runs, loc, w, req, calls, resolved,
                   prevResult>>

\* update_nic from  nic_list = client.list_nics(...)  on, with the
\* datacenter and the server located, up to the wait.  A parameter that is
\* None is given the NIC's own value.
UpdateNicLocated(located, nic_list) ==
    \E k \in {FirstByNameOrId(nic_list, params.name)} :
       /\ calls' = located.st.calls
             \o <<Call("list_nics", located.server)>>
             \o (IF k = 0 \/ params.check_mode THEN <<>>
                 ELSE <<Call("update_nic", nic_list[k].id)>>)
       /\ IF k = 0
          THEN /\ result' = FailJson("NIC could not be found.", NoException)
               /\ pc' = "done"
               /\ resolved' = located.st.resolved
               /\ UNCHANGED <<pb, loc, w, req>>
          ELSE IF params.check_mode
          THEN /\ result' = ExitJson(TRUE, <<>>, NoId)
               /\ pc' = "done"
               /\ resolved' = located.st.resolved
               /\ UNCHANGED <<pb, loc, w, req>>
          ELSE
          LET nic == nic_list[k]
              lan == IF params.lan = 0 THEN nic.lan ELSE params.lan
              nic_response == UpdateResponse(pb, nic.id)
          IN  /\ pb' = client_update_nic(pb, nic.id, lan)
              /\ req' = [id |-> nic_response.requestId, status |-> "QUEUED"]
              /\ resolved' = Append(located.st.resolved,
                                Resolved("update_nic", params.name, nic.id))
              /\ loc' = [loc EXCEPT !.datacenter = located.datacenter,
                                    !.server = located.server,
                                    !.response = nic_response]
              /\ IF params.wait
                 THEN /\ w' = StartWait(nic_response, params.wait_timeout,
                                 "update_nic", "un_updated",
                                 "failed to update the NIC")
                      /\ pc' = WaitPc(nic_response, "un_updated")
                 ELSE /\ pc' = "un_updated"
                      /\ UNCHANGED w
              /\ UNCHANGED result

\* main, state == 'update', of the NIC module, and update_nic up to its wait
NicUpdateMain ==
    /\ pc = "start" /\ module = "nic" /\ params.state = "update"
    /\ IF NicRequired # ""
       THEN /\ result' = FailJson(NicRequired, NoException)
            /\ pc' = "done"
            /\ UNCHANGED <<pb, loc, w, req, calls, resolved>>
       ELSE \E located \in {LocateServer(LoopState, params.datacenter,
                                         params.server)} :
               IF located.st.result # NoResult
               THEN /\ result' = [located.st.result EXCEPT
                                     !.msg = "failed to update nic"]
                    /\ calls' = located.st.calls
                    /\ resolved' = located.st.resolved
                    /\ pc' = "done"
                    /\ UNCHANGED <<pb, loc, w, req>>
               ELSE IF ~ServerExists(pb, located.datacenter, located.server)
               THEN /\ result' = FailJson("failed to update nic",
                                          NotFound("list_nics"))
                    /\ calls' = Append(located.st.calls,
                                       Call("list_nics", located.server))
                    /\ resolved' = located.st.resolved
                    /\ pc' = "done"
                    /\ UNCHANGED <<pb, loc, w, req>>
               ELSE UpdateNicLocated(located,
                                     client_list_nics(pb, located.server))
    /\ UNCHANGED <<module, pb0, params, runs, prevResult>>

\* update_nic after the wait: "Refresh NIC properties", return, and main
\* exits
UnUpdated ==
    /\ pc = "un_updated"
    /\ w' = NoWait
    /\ calls' = Append(calls, Call("get_nic", loc.response.id))
    /\ result' = IF NicExists(pb, loc.datacenter, loc.server, loc.response.id)
                 THEN ExitJson(TRUE, <<>>, loc.response.id)
                 ELSE FailJson("failed to update the NIC", NotFound("get_nic"))
    /\ pc' = "done"
    /\ UNCHANGED <<module, pb, pb0, params, runs, loc, req, resolved,
                   prevResult>>

\* every operation of the three modules
NextAll ==
    \/ Next
    \/ InvokeState
    \/ MainOtherState
    \/ ServerUpdate
    \/ ServerStartStop
    \/ StartStopPoll
    \/ StartStopTimeout
    \/ VolumeUpdateMain
    \/ UvLoop
    \/ UvUpdate
    \/ UvFinish
    \/ NicUpdateMain
    \/ UnUpdated
    \/ CvmLanCreated
    \/ PowerStep

\* a provider with two resources of one name: the vendor does not keep names
\* unique
SameNameProvider(m) ==
    CASE m = "server" -> ProviderWith(<<N_web01, N_web01>>, <<>>, <<>>)
      [] m = "volume" -> ProviderWith(<<N_web01>>, <<N_web01, N_web01>>, <<>>)
      [] m = "nic"    -> ProviderWith(<<N_web01, N_uuid>>, <<>>,
                                      <<N_eth0, N_eth0>>)

\* the name of a LAN that is not public
N_lan == <<"l", "a", "n">>

\* a datacenter whose servers differ in cpu family and in power state, with
\* one LAN, which is not public
MixedProvider ==
    LET p == ProviderWith(<<N_web01, N_uuid>>, <<>>, <<>>)
    IN  [p EXCEPT !.servers[1].cpuFamily = "INTEL_XEON",
                  !.servers[2].vmState = "SHUTOFF",
                  !.servers[2].pending = "SHUTOFF",
                  !.lans = <<[id |-> <<"1">>, dc |-> p.dcs[1].id,
                              name |-> N_lan, public |-> FALSE]>>]

InitAll ==
    /\ module \in Modules
    /\ pb \in InitialProviders(module) \cup {SameNameProvider(module)}
              \cup (IF module = "server" THEN {MixedProvider} ELSE {})
    /\ pb0 = pb
    /\ params = NoParams
    /\ pc = "idle"
    /\ runs = 0
    /\ loc = NoLoc
    /\ w = NoWait
    /\ req = [id |-> 0, status |-> "DONE"]
    /\ calls = <<>>
    /\ resolved = <<>>
    /\ result = NoResult
    /\ prevResult = NoResult

SpecAll == InitAll /\ [][NextAll]_vars

(***************************************************************************)
(* The claims.                                                             *)
(***************************************************************************)
Terminal == {"DONE", "FAILED"}

\* the elements of a sequence
Range1(seq) == {seq[k] : k \in 1..Len(seq)}

\* the positions of the terminal statuses among the polls of the running wait
TerminalPolls == {k \in 1..Len(w.polls) : w.polls[k] \in Terminal}

\* C1: _wait_for_completion returns success at the first poll whose status
\* is DONE and polls no more: when the k-th response is the first terminal
\* one and is DONE, the waiter has returned to its caller after exactly k
\* polls; and it returns success only so.
C1_ReturnsAtFirstDone ==
    /\ \A k \in 1..Len(w.polls) :
          (w.polls[k] = "DONE" /\ k = Min(TerminalPolls))
             => /\ Len(w.polls) = k
                /\ w.outcome = "DONE"
                /\ pc = w.ret
                /\ result.kind = "none"
    /\ w.outcome = "DONE"
          => /\ w.polls # <<>>
             /\ w.polls[Len(w.polls)] = "DONE"
             /\ TerminalPolls = {Len(w.polls)}

\* the responses RUNNING, RUNNING, DONE: returned after exactly 3 polls
C1_Witness ==
    /\ w.polls = <<"RUNNING", "RUNNING", "DONE">>
    /\ w.outcome = "DONE"
    /\ pc = w.ret

\* C2: when a poll reports FAILED, the waiter raises the operation-failed
\* error naming the operation at that poll, polls no more, and the
\* invocation ends as a fatal failure, never as a success.
C2_FailedIsFatal ==
    \A k \in 1..Len(w.polls) :
        w.polls[k] = "FAILED"
           => /\ Len(w.polls) = k
              /\ w.outcome = "FAILED"
              /\ pc = "done"
              /\ result.kind = "fail"
              /\ result.exception.text = "Request failed to complete"
              /\ result.exception.op = w.msg
              /\ result.exception.requestId = w.requestId

C2_Witness ==
    /\ w.polls = <<"RUNNING", "FAILED">>
    /\ result.kind = "fail"
    /\ w.msg = "create_virtual_machine"

\* C3: a wait whose polls never report DONE or FAILED ends, and ends by the
\* timeout error, which is not the operation-failed error; a wait never ends
\* otherwise than by DONE, FAILED or the timeout.
C3_WaitEnds ==
    /\ [](w.outcome \in {"NONE", "PENDING", "DONE", "FAILED", "TIMED_OUT"})
    /\ []((w.outcome \notin {"NONE", "PENDING"} /\ TerminalPolls = {})
            => /\ w.outcome = "TIMED_OUT"
               /\ pc = "done"
               /\ result.kind = "fail"
               /\ result.exception = TimedOut(w.msg, w.requestId)
               /\ result.exception.text
                     # OperationFailed(w.msg, w.requestId).text)
    /\ (pc = "wait") ~> (pc # "wait")

C3_Witness ==
    /\ w.polls = <<"QUEUED", "RUNNING", "RUNNING">>
    /\ w.outcome = "TIMED_OUT"
    /\ result.kind = "fail"

\* the create calls of the running invocation, in order
CreateOps == {"create_datacenter", "create_server", "create_volume",
              "create_nic"}

IsCreate(c) == c.op \in CreateOps

CreateCalls == SelectSeq(calls, IsCreate)

\* a run of state=present that is not a dry run
Applies(m) ==
    /\ module = m
    /\ params.state = "present"
    /\ ~params.check_mode

\* the servers of the ids the invocation reported
ReportedServers ==
    {s \in Range1(pb.servers) : s.id \in Range1(result.instances)}

\* C4: server module, state=present.  From a provider without datacenters,
\* a first invocation that ends well has created the datacenter of the
\* declared name and, after it, at least one server in it, each with a boot
\* volume.  An invocation that follows one that ended well issues no create
\* call and reports changed=false and the instance ids reported before.
C4_ServerCreateIdempotent ==
    /\ (Applies("server") /\ runs = 1 /\ pb0.dcs = <<>>
          /\ pc = "done" /\ result.kind = "exit"
          /\ (params.auto_increment => params.count >= 1))
       => /\ result.changed
          /\ CreateCalls # <<>>
          /\ CreateCalls[1] = Call("create_datacenter", params.datacenter)
          /\ \A k \in 2..Len(CreateCalls) : CreateCalls[k].op = "create_server"
          /\ Len(CreateCalls) >= 2
          /\ Len(pb.dcs) = 1
          /\ pb.dcs[1].name = params.datacenter
          /\ Len(result.instances) = Len(CreateCalls) - 1
          /\ Cardinality(ReportedServers) = Len(result.instances)
          /\ \A s \in ReportedServers :
                /\ s.dc = pb.dcs[1].id
                /\ VolumeExists(pb, s.dc, s.bootVolume)
    /\ (Applies("server") /\ runs >= 2 /\ prevResult.kind = "exit")
       => /\ CreateCalls = <<>>
          /\ pc = "done"
                => /\ result.kind = "exit"
                   /\ ~result.changed
                   /\ result.instances = prevResult.instances

\* the second run after a first one that created datacenter D and a server
C4_Witness ==
    /\ Applies("server") /\ runs = 2 /\ pc = "done"
    /\ params.datacenter = N_D
    /\ pb.dcs = <<[id |-> Id(1), name |-> N_D]>>
    /\ prevResult.changed /\ ~result.changed
    /\ result.instances = <<Id(3)>>
    /\ prevResult.instances = <<Id(3)>>
    /\ client_get_server(pb, Id(3)).bootVolume = Id(5)

\* C5: volume module, state=present.  An invocation that follows one that
\* ended well reports changed=false and, in instance_ids.instances, the
\* volume ids the one before it reported.
C5_VolumeCreateSameIds ==
    (Applies("volume") /\ runs >= 2 /\ pc = "done" /\ prevResult.kind = "exit")
       => /\ result.kind = "exit"
          /\ ~result.changed
          /\ result.instances = prevResult.instances

\* the NICs the provider had, when the invocation started, on the server
\* create_nic listed the NICs of, with the requested name
ExistingNics ==
    {k \in 1..Len(pb0.nics) :
        /\ pb0.nics[k].name = params.name
        /\ \E i \in 1..Len(calls) :
              calls[i] = Call("list_nics", pb0.nics[k].server)}

\* C6: NIC module, state=present.  When the resolved server has a NIC of
\* the requested name, the invocation issues no create call and reports
\* changed=false and (outside a dry run) the first such NIC; so an
\* invocation that follows one that ended well reports the same NIC.
C6_NicCreateIdempotent ==
    /\ (module = "nic" /\ params.state = "present" /\ pc = "done"
          /\ ExistingNics # {})
       => /\ CreateCalls = <<>>
          /\ result.kind = "exit"
          /\ ~result.changed
          /\ ~params.check_mode
                => result.nic = pb0.nics[Min(ExistingNics)].id
    /\ (Applies("nic") /\ runs >= 2 /\ pc = "done" /\ prevResult.kind = "exit")
       => /\ CreateCalls = <<>>
          /\ result.kind = "exit"
          /\ ~result.changed
          /\ result.nic = prevResult.nic

\* the second run after a first one that created the NIC
C6_Witness ==
    /\ Applies("nic") /\ runs = 2 /\ pc = "done"
    /\ ExistingNics # {}
    /\ prevResult.changed /\ ~result.changed
    /\ result.nic # NoId
    /\ result.nic = prevResult.nic

DeleteOps == {"delete_server", "delete_volume", "delete_nic"}

IsDelete(c) == c.op \in DeleteOps

\* the names and ids of the resources of the module's kind the provider
\* had when the invocation started
Identities(resources) ==
    {r.name : r \in Range1(resources)} \cup {r.id : r \in Range1(resources)}

Existing ==
    CASE module = "server" -> pb0.servers
      [] module = "volume" -> pb0.volumes
      [] module = "nic"    -> pb0.nics

\* the identities the declaration asks to remove
Asked ==
    IF module = "nic" THEN {params.name} ELSE Range1(params.instance_ids)

\* C7: state=absent, in every module.  When none of the identities asked
\* for, plain or shaped like a UUID, is the name or the id of a resource,
\* the invocation ends with changed=false, without a failure and without a
\* delete call.
C7_AbsentNothingToDelete ==
    (/\ params.state = "absent" /\ pc = "done" /\ ~params.check_mode
     /\ params.datacenter \in Identities(pb0.dcs)
     /\ module = "nic" => params.server \in Identities(pb0.servers)
     /\ uuid_match(params.server)
           => params.server \in {r.id : r \in Range1(pb0.servers)}
     /\ Asked # {}
     /\ Asked \cap Identities(Existing) = {})
       => /\ result.kind = "exit"
          /\ ~result.changed
          /\ SelectSeq(calls, IsDelete) = <<>>

\* C8: a resolver given a string shaped like a UUID selects a resource only
\* when the string is the resource's id.
C8_UuidMatchesIdOnly ==
    \A k \in 1..Len(resolved) :
        uuid_match(resolved[k].identity)
           => resolved[k].id = resolved[k].identity

\* template % k, written out for the templates "web%02d" and "web" (which
\* stands for "web%d"), k < 10
ExpectedName(template, k) ==
    IF template = N_web02d
    THEN <<"w", "e", "b", "0", Digits[k + 1]>>
    ELSE <<"w", "e", "b", Digits[k + 1]>>

ExpectedNames == {ExpectedName(params.name, k) : k \in 1..params.count}

IsResourceCreate(c) == c.op \in {"create_server", "create_volume"}

\* the names of the resources the running invocation created
CreatedNames == {c.arg : c \in Range1(SelectSeq(calls, IsResourceCreate))}

\* a run of create_virtual_machine or create_volume with auto_increment
AutoIncrement ==
    /\ module \in {"server", "volume"}
    /\ params.state = "present"
    /\ ~params.check_mode
    /\ params.auto_increment

\* C9: auto-increment naming.  The names generated for count = n are
\* template % 1, ..., template % n, for "web%02d" and n = 3 the names web01,
\* web02, web03; and when no resource carries one of them, an invocation
\* that ends well has created the resources of exactly these names.
C9_NamesAreOneToCount ==
    /\ (AutoIncrement /\ pc \in {"cvm_loop", "cv_loop"})
       => /\ loc.names = [k \in 1..params.count |->
                             ExpectedName(params.name, k)]
          /\ (params.name = N_web02d /\ params.count = 3)
                => Range1(loc.names) =
                      {<<"w", "e", "b", "0", "1">>, <<"w", "e", "b", "0", "2">>,
                       <<"w", "e", "b", "0", "3">>}
    /\ (AutoIncrement /\ pc = "done" /\ result.kind = "exit"
          /\ ExpectedNames \cap Identities(Existing) = {})
       => /\ CreatedNames = ExpectedNames
          /\ Len(SelectSeq(calls, IsResourceCreate)) = params.count
          /\ Len(result.instances) = params.count

\* "web%02d", count=3, nothing of these names before: web01, web02, web03
C9_Witness ==
    /\ AutoIncrement /\ pc = "done" /\ result.kind = "exit"
    /\ params.name = N_web02d /\ params.count = 3
    /\ Identities(Existing) = {}
    /\ CreatedNames = {<<"w", "e", "b", "0", "1">>, <<"w", "e", "b", "0", "2">>,
                       <<"w", "e", "b", "0", "3">>}

\* C10: auto-numbering with numbers in use.  When resources of the
\* template's names exist before the invocation, an invocation with
\* count = n that ends well has created n resources, of names that are
\* distinct and were not in use.
C10_SkipsNumbersInUse ==
    (/\ AutoIncrement /\ runs = 1 /\ pc = "done" /\ result.kind = "exit"
     /\ \E k \in 1..9 : ExpectedName(params.name, k) \in Identities(Existing))
       => /\ Len(SelectSeq(calls, IsResourceCreate)) = params.count
          /\ Cardinality(CreatedNames) = params.count
          /\ CreatedNames \cap Identities(Existing) = {}
(***************************************************************************)
(* Updates, identities, reporting and failures.                            *)
(***************************************************************************)
\* a field of every resource of a list is what it was when the invocation
\* started
FieldKept(now, before, field) ==
    /\ Len(now) = Len(before)
    /\ \A k \in 1..Len(now) : now[k][field] = before[k][field]

\* C11: in every update path a field the declaration leaves out is unchanged
\* on the resource after the update: it is sent with the live value or not
\* at all, and is not reset to the module's default.
C11_OmittedFieldsKept ==
    params.state = "update" =>
       /\ (module = "server" /\ "cores" \in params.omitted)
             => FieldKept(pb.servers, pb0.servers, "cores")
       /\ (module = "volume" /\ "size" \in params.omitted)
             => FieldKept(pb.volumes, pb0.volumes, "size")
       /\ (module = "nic" /\ "lan" \in params.omitted)
             => FieldKept(pb.nics, pb0.nics, "lan")

UpdateOps == {"update_server", "update_volume", "update_nic"}

\* the ids of the servers, volumes and NICs of a provider
ResourceIds(p) ==
    {r.id : r \in Range1(p.servers)} \cup {r.id : r \in Range1(p.volumes)}
        \cup {r.id : r \in Range1(p.nics)}

\* the lookups whose result keys an update or a delete
MutationResolvers ==
    {"update_server", "update_volume", "update_nic", "delete_volume",
     "delete_nic"}

\* the ids one supplied identity selected for an update or a delete
MutatedFor(identity) ==
    {r.id : r \in {x \in Range1(resolved) :
                      x.resolver \in MutationResolvers /\ x.identity = identity}}

\* C12: every update or delete call is keyed by the id of a resource that
\* exists, and one supplied identity never leads to mutations of more than
\* one resource.
C12_OneResolvedIdPerMutation ==
    /\ \A c \in Range1(calls) :
          c.op \in UpdateOps \cup DeleteOps => c.arg \in ResourceIds(pb0)
    /\ \A identity \in Asked : Cardinality(MutatedFor(identity)) <= 1

\* C13: an invocation of main that is over, whatever the value of state, has
\* reported through exit_json or through fail_json; main never returns
\* without reporting.
C13_MainAlwaysReports ==
    pc = "done" => result.kind \in {"exit", "fail"}

\* a parameter the requested state needs is missing from the declaration
MissingRequired ==
    /\ module \in {"server", "volume"}
    /\ params.state \in KnownStates(module)
    /\ \/ params.datacenter = None
       \/ params.state # "present" /\ params.instance_ids = <<>>

\* C14: when a parameter the requested state needs is missing (datacenter,
\* instance_ids), the invocation fails, and no call to the provider's API is
\* made.
C14_MissingParameterFailsFirst ==
    (runs > 0 /\ MissingRequired) =>
       /\ calls = <<>>
       /\ pc = "done" => result.kind = "fail"

\* the declaration refers to a server, a volume or a NIC that the provider
\* does not have, in a path that creates, updates, starts or stops
Unresolvable ==
    /\ runs > 0
    /\ ~params.check_mode
    /\ ~MissingRequired
    /\ \/ /\ module \in {"server", "volume"}
          /\ params.state \in {"update", "running", "stopped"}
          /\ \E identity \in Asked : identity \notin Identities(Existing)
       \/ /\ module = "nic"
          /\ params.state \in {"present", "update"}
          /\ params.server \notin Identities(pb0.servers)

\* C15: in the create, update and start/stop paths a reference that cannot
\* be found ends the invocation in a failure; the string is not passed to
\* the provider as an id, and the entry is not passed over.
C15_UnresolvedIsFatal ==
    Unresolvable =>
       /\ pc = "done" => result.kind = "fail"
       /\ module = "nic" => \A c \in Range1(calls) : c.arg # params.server

\* the calls that name a datacenter, a server, a volume or a NIC by its id
OnResourceOps ==
    UpdateOps \cup DeleteOps \cup
    {"start_server", "stop_server", "get_server", "get_nic", "list_servers",
     "list_volumes", "list_nics"}

\* the ids of everything a provider holds
Targets(p) == ResourceIds(p) \cup {d.id : d \in Range1(p.dcs)}

\* the k-th call of the invocation is on something the provider did not hold
\* at any time of the invocation: the API answers 404 and the SDK raises
Raised(k) ==
    /\ calls[k].op \in OnResourceOps
    /\ calls[k].arg \notin Targets(pb0) \cup Targets(pb)

FailedCallIsLast ==
    (result.kind = "fail" /\ result.exception.text = "Resource does not exist")
       => /\ calls # <<>>
          /\ calls[Len(calls)].op = result.exception.op

\* C17: once an invocation has reported a failure it makes no further call
\* to the provider's API, changes nothing and reports nothing else; the call
\* that failed is the last call, so it is not made again.
C17_FailureIsTerminal ==
    /\ []FailedCallIsLast
    /\ [][(result.kind = "fail" /\ runs' = runs)
             => (calls' = calls /\ pb' = pb /\ result' = result)]_vars

\* a request reported FAILED after the mutation and at least one poll, and
\* the invocation is over
C17_Witness ==
    /\ pc = "done"
    /\ result.kind = "fail"
    /\ result.exception.text = "Request failed to complete"
    /\ Len(calls) >= 2
    /\ calls[Len(calls)].op = "get_request"

\* the resources of the module's kind that a provider holds
KindOf(p) == IF module = "server" THEN p.servers ELSE p.volumes

\* a run of create_virtual_machine or create_volume that failed at the
\* creation of one of its resources
BatchFailed ==
    /\ module \in {"server", "volume"}
    /\ params.state = "present"
    /\ pc = "done"
    /\ result.kind = "fail"
    /\ result.msg \in {"failed to create the new server",
                       "failed to create the volume",
                       "failed to attach volume"}

\* the create calls of the running invocation, in order
ResourceCreates == SelectSeq(calls, IsResourceCreate)

\* C18: when the creation of resource k of a batch fails, the resources
\* created before it in this invocation are still there, no delete call was
\* made, and nothing was created after resource k.
C18_PartialBatchStays ==
    BatchFailed =>
       /\ \A c \in Range1(calls) : ~IsDelete(c)
       /\ Len(KindOf(pb)) = Len(KindOf(pb0)) + Len(ResourceCreates)
       /\ \A j \in 1..Len(KindOf(pb0)) : KindOf(pb)[j].id = KindOf(pb0)[j].id
       /\ \A j \in 1..Len(ResourceCreates) :
             KindOf(pb)[Len(KindOf(pb0)) + j].name = ResourceCreates[j].arg
       /\ KindOf(pb)[Len(KindOf(pb))].id = loc.response.id
       /\ Len(ResourceCreates) <= Len(loc.names)

\* the creation of the second of three resources failed
C18_Witness ==
    /\ BatchFailed
    /\ Len(loc.names) = 3
    /\ Len(ResourceCreates) = 2
    /\ Len(KindOf(pb)) = Len(KindOf(pb0)) + 2

\* the mutations of the entries of a batch, in the paths that wait
BatchOps ==
    {"create_server", "create_volume", "update_volume", "start_server",
     "stop_server"}

\* C19: with wait requested, the mutation of the next entry of a batch is
\* issued only after the wait for the mutation of the entry before it is
\* over: two such mutations never follow each other in the call log with
\* nothing in between, and what is waited for is one operation.
C19_OneMutationThenItsWait ==
    params.wait =>
       \A k \in 1..(Len(calls) - 1) :
          ~(calls[k].op \in BatchOps /\ calls[k + 1].op \in BatchOps)

\* the k-th call deletes a server right after the delete of its boot volume
AfterBootVolume(k) ==
    /\ k > 2
    /\ calls[k - 2] = Call("get_server", calls[k].arg)
    /\ calls[k - 1].op = "delete_volume"
    /\ \E r \in Range1(pb0.servers) :
          r.id = calls[k].arg /\ r.bootVolume = calls[k - 1].arg

\* C20: in remove_virtual_machine, with remove_boot_volume the delete of a
\* server comes right after the delete of its boot volume, and a failure to
\* remove the boot volume ends the invocation before the server is deleted;
\* without remove_boot_volume no volume is deleted.
C20_BootVolumeBeforeServer ==
    (module = "server" /\ params.state = "absent") =>
       /\ params.remove_boot_volume =>
             /\ \A k \in 1..Len(calls) :
                   calls[k].op = "delete_server" => AfterBootVolume(k)
             /\ result.msg = "failed to remove the server's boot volume"
                   => /\ calls[Len(calls)].op \in {"get_server", "delete_volume"}
                      /\ result.kind = "fail"
       /\ ~params.remove_boot_volume =>
             \A c \in Range1(calls) : c.op \notin {"get_server", "delete_volume"}

\* a server was deleted after its boot volume, and the invocation ended well
C20_Witness ==
    /\ module = "server" /\ params.state = "absent"
    /\ params.remove_boot_volume
    /\ pc = "done" /\ result.kind = "exit" /\ result.changed
    /\ \E k \in 1..Len(calls) :
          calls[k].op = "delete_server" /\ AfterBootVolume(k)
    /\ Len(pb.volumes) < Len(pb0.volumes)
    /\ Len(pb.servers) < Len(pb0.servers)

(***************************************************************************)
(* Waiting, creating, and what is reported.                                *)
(***************************************************************************)
\* a divided by b, rounded up
CeilDiv(a, b) == (a + b - 1) \div b

\* C27: the poll budget of _wait_for_completion.  Every poll comes after a
\* sleep of 5; with wait_timeout <= 0 the waiter polls nothing and raises
\* the timeout; when time advances by the sleeps only, the polls are at most
\* ceil(wait_timeout / 5); and a DONE at the last poll is a success even
\* with the deadline passed.
C27_PollBudget ==
    /\ w.now >= SleepInterval * Len(w.polls)
    /\ (w.requestId # 0 /\ w.deadline <= 0)
          => /\ w.polls = <<>>
             /\ w.outcome \in {"PENDING", "TIMED_OUT"}
    /\ (w.now = SleepInterval * Len(w.polls))
          => Len(w.polls) <= CeilDiv(w.deadline, SleepInterval)
    /\ (w.polls # <<>> /\ w.polls[Len(w.polls)] = "DONE")
          => w.outcome = "DONE"

\* wait_timeout = 12: polls after 5, 10 and 15, and the third, past the
\* deadline, reports DONE
C27_Witness ==
    /\ w.deadline = 12
    /\ w.now = 15
    /\ w.polls = <<"RUNNING", "RUNNING", "DONE">>
    /\ w.outcome = "DONE"
    /\ result.kind # "fail"

\* the positions of the calls of an operation in the call log
CallsOf(op) == {k \in 1..Len(calls) : calls[k].op = op}

\* no datacenter the provider held at the start matches the parameter
DatacenterUnmatched == FirstByNameOrId(pb0.dcs, params.datacenter) = 0

\* C24: a datacenter is created only by the server module with
\* state=present, exactly when none matches the datacenter parameter by
\* name or id, at most once in an invocation, and before any server is
\* created its request has been waited for.
C24_DatacenterCreatedIfAbsent ==
    /\ Cardinality(CallsOf("create_datacenter")) <= 1
    /\ Len(pb.dcs) = Len(pb0.dcs) + Cardinality(CallsOf("create_datacenter"))
    /\ CallsOf("create_datacenter") # {}
          => /\ module = "server" /\ params.state = "present"
             /\ DatacenterUnmatched
    /\ (/\ module = "server" /\ params.state = "present"
        /\ pc \notin {"idle", "start"}
        /\ params.name # None /\ ~params.check_mode
        /\ DatacenterUnmatched)
          => Cardinality(CallsOf("create_datacenter")) = 1
    /\ \A j \in CallsOf("create_datacenter") : \A k \in CallsOf("create_server") :
          /\ j < k
          /\ \E m \in (j + 1)..(k - 1) :
                calls[m] = Call("get_request", pb0.nextId + 1)

\* the datacenter was missing: it was created and waited for, then a server
\* was created in it, and the invocation ended well
C24_Witness ==
    /\ pc = "done" /\ result.kind = "exit"
    /\ CallsOf("create_datacenter") # {}
    /\ CallsOf("create_server") # {}
    /\ Len(pb.dcs) = Len(pb0.dcs) + 1

\* the calls that change something at the provider
MutatingOps ==
    CreateOps \cup UpdateOps \cup DeleteOps
        \cup {"create_lan", "start_server", "stop_server", "attach_volume"}

\* C26: check mode.  In every module and state an invocation in check mode
\* issues no create, update, delete, start, stop or attach call, and the
\* provider's resources are what they were when it started.
C26_CheckModeChangesNothing ==
    params.check_mode =>
       /\ \A c \in Range1(calls) : c.op \notin MutatingOps
       /\ pb = pb0

\* a dry run of a delete that found its volume and reported changed=True
C26_Witness ==
    /\ params.check_mode
    /\ module = "volume" /\ params.state = "absent"
    /\ pc = "done" /\ result.kind = "exit" /\ result.changed
    /\ \E r \in Range1(resolved) : r.resolver = "delete_volume"
    /\ pb = pb0

\* no two resources of a list carry the same name
NamesDistinct(resources) ==
    \A j \in 1..Len(resources) : \A k \in 1..Len(resources) :
       resources[j].name = resources[k].name => j = k

\* C29: when no two volumes shared a name before create_volume, no two
\* share a name after it returned, for every count and for auto_increment
\* set or not.
C29_VolumeNamesStayDistinct ==
    (/\ module = "volume" /\ params.state = "present"
     /\ pc = "done" /\ result.kind = "exit"
     /\ NamesDistinct(pb0.volumes))
       => NamesDistinct(pb.volumes)

\* the identities of the batch: the generated names of a create, the
\* instance_ids of an update
BatchIdentities ==
    IF params.state = "present" THEN loc.names ELSE params.instance_ids

\* a batch create or update that ended well
BatchSucceeded ==
    /\ module \in {"server", "volume"}
    /\ params.state \in {"present", "update"}
    /\ ~params.check_mode
    /\ pc = "done"
    /\ result.kind = "exit" /\ ~result.failed

\* the resource of that id carries the identity as its name or its id
Answers(id, identity) ==
    \E r \in Range1(KindOf(pb)) :
       r.id = id /\ identity \in {r.name, r.id}

\* C25: the result of a batch create or update that ended well lists one id
\* per identity of the batch, in the order of the batch, and each id is that
\* of the resource created, updated or found for that identity.
C25_OneEntryPerIdentity ==
    BatchSucceeded =>
       /\ Len(result.instances) = Len(BatchIdentities)
       /\ \A k \in 1..Len(result.instances) :
             Answers(result.instances[k], BatchIdentities[k])

(***************************************************************************)
(* The LANs and the NICs of the servers that are created.                  *)
(***************************************************************************)
\* the LANs and the servers the invocation has added to the provider
NewLans == {l \in Range1(pb.lans) : l \notin Range1(pb0.lans)}

NewServers == {s \in Range1(pb.servers) : s.id \notin Range1(Ids(pb0.servers))}

\* the LAN numbers of the NICs of a server, in the order of the NICs
NicLans(serverId) ==
    [k \in 1..Len(client_list_nics(pb, serverId)) |->
        client_list_nics(pb, serverId)[k].lan]

\* create_virtual_machine is running, or has run
InCreate ==
    /\ module = "server" /\ params.state = "present"
    /\ pc \notin {"idle", "start"}

\* the public LANs of a datacenter
PublicLans(p, datacenter) ==
    {l \in Range1(p.lans) : l.dc = datacenter /\ l.public}

\* the LANs of the datacenter have been listed by this invocation
LansListed == \E c \in Range1(calls) : c.op = "list_lans"

\* C23: in _create_machine a LAN is created if and only if assign_public_ip
\* is true and the datacenter has no public LAN; over a batch of servers one
\* invocation creates, at most one LAN is created, it is public, and the
\* first NIC of every server of the batch is on the public LAN of the
\* datacenter.
C23_OnePublicLan ==
    InCreate =>
       /\ (NewLans # {}) <=>
             /\ params.assign_public_ip
             /\ LansListed
             /\ PublicLans(pb0, loc.datacenter) = {}
       /\ Cardinality(NewLans) <= 1
       /\ \A l \in NewLans : l.public /\ l.dc = loc.datacenter
       /\ Cardinality(CallsOf("create_lan")) = Cardinality(NewLans)
       /\ params.assign_public_ip =>
             \A s \in NewServers :
                /\ NicLans(s.id) # <<>>
                /\ \A l \in PublicLans(pb, loc.datacenter) :
                      NicLans(s.id)[1] = StrToInt(l.id)
                /\ PublicLans(pb, loc.datacenter) # {}

\* two servers were created in a datacenter that had no public LAN: one LAN
\* was created, and both servers have their first NIC on it
C23_Witness ==
    /\ InCreate /\ pc = "done" /\ ~result.failed
    /\ params.assign_public_ip
    /\ PublicLans(pb0, loc.datacenter) = {}
    /\ Cardinality(NewServers) = 2
    /\ Cardinality(NewLans) = 1
    /\ \A s \in NewServers : \A l \in NewLans : NicLans(s.id)[1] = StrToInt(l.id)

\* the LAN the lan parameter resolves to, now
matching_lan ==
    _get_lan_by_id_or_properties(client_list_lans(pb, loc.datacenter),
                                 params.network, {<<"name", params.network>>})

\* C30: a server built by _create_machine has at most one NIC on a LAN; with
\* assign_public_ip and a lan parameter it has one NIC if the lan parameter
\* resolves to the public LAN and two if it resolves to another LAN; and
\* with a lan parameter that matches no LAN, no create_server call is made
\* and the invocation that tried to create a server fails.
C30_NicsOfCreatedServer ==
    InCreate =>
       /\ \A s \in NewServers :
             \A j, k \in 1..Len(NicLans(s.id)) :
                NicLans(s.id)[j] = NicLans(s.id)[k] => j = k
       /\ (params.assign_public_ip /\ params.network # None) =>
             \A s \in NewServers :
                Len(NicLans(s.id)) =
                   IF matching_lan = public_lan(pb, loc.datacenter)
                   THEN 1 ELSE 2
       /\ (params.network # None /\ loc.datacenter # None
             /\ matching_lan = NoLan) =>
             /\ CallsOf("create_server") = {}
             /\ (pc = "done" /\ LansListed) => result.failed

\* with assign_public_ip and a lan parameter that is the number of a LAN
\* that is not public, a server was created with two NICs: one on the public
\* LAN, which was created for it, and one on the LAN of the parameter
C30_Witness ==
    /\ InCreate /\ pc = "done" /\ ~result.failed
    /\ params.assign_public_ip
    /\ params.network = <<"1">> /\ pb0 = MixedProvider
    /\ \E s \in NewServers : NicLans(s.id) = <<2, 1>>

(***************************************************************************)
(* Updating and starting servers.                                          *)
(***************************************************************************)
\* the server of the id, as the provider held it when the invocation began
ServerAtStart(id) == CHOOSE s \in Range1(pb0.servers) : s.id = id

\* C28: the allow_reboot sent with the update of a server is True only if
\* the cpuFamily the server had differs from the cpu_family asked for; a
\* server of the batch whose cpu family is the one asked for is updated
\* without allow_reboot, whatever the servers before it were.
C28_RebootOnlyForOwnCpuFamily ==
    (module = "server" /\ params.state = "update") =>
       \A k \in CallsOf("update_server") :
          \A s \in Range1(pb.servers) :
             (s.id = calls[k].arg /\ s.allow_reboot = "True")
                => ServerAtStart(s.id).cpuFamily # params.cpu_family

\* the ids of the servers the invocation has started or stopped
TargetedServers ==
    {r.id : r \in {x \in Range1(resolved) : x.resolver = "_get_server_id"}}

\* the wait of startstop_machine ends, and the invocation does not fail
WaitEndsWell ==
    /\ module = "server" /\ params.state \in {"running", "stopped"}
    /\ params.wait
    /\ pc = "ss_wait" /\ pc' = "done"
    /\ result'.kind = "exit" /\ ~result'.failed

\* C21: when startstop_machine waits and returns without failure, every
\* server it started or stopped is in the power state asked for at the poll
\* that ended the wait.
C21_TargetedServersReachedState ==
    [][WaitEndsWell =>
          \A s \in Range1(pb.servers) :
             s.id \in TargetedServers => s.vmState = VmStateOf(params.state)]_vars

(***************************************************************************)
(* Creating a resource that does not exist.                                *)
(***************************************************************************)
\* the create call of the module's resource, and the call that fetches it
CreateOp ==
    CASE module = "server" -> "create_server"
      [] module = "volume" -> "create_volume"
      [] module = "nic"    -> "create_nic"

FetchOp ==
    CASE module = "server" -> "get_server"
      [] module = "volume" -> "get_volume"
      [] module = "nic"    -> "get_nic"

\* the resources of the module's kind that a provider holds
ResourcesOf(p) ==
    CASE module = "server" -> p.servers
      [] module = "volume" -> p.volumes
      [] module = "nic"    -> p.nics

\* the resources the invocation was to create, not counting the boot volumes
Created ==
    {r \in Range1(ResourcesOf(pb)) :
        /\ r.id \notin Range1(Ids(ResourcesOf(pb0)))
        /\ module = "volume" => r.server = NoId \/ params.server # None}

\* state=present has ended without failure, and not as a dry run
CreatedWell ==
    /\ params.state = "present" /\ ~params.check_mode
    /\ pc = "done" /\ result.kind = "exit" /\ ~result.failed

\* the k-th call is waited for: the next call polls a request
WaitedFor(k) == k < Len(calls) /\ calls[k + 1].op = "get_request"

\* the resource of the k-th call is fetched before the next create call
FetchedAfter(k) ==
    \E j \in CallsOf(FetchOp) :
        /\ j > k
        /\ \A m \in CallsOf(CreateOp) : m > k => m > j

\* C22: when state=present ends well, in each module, there is one create
\* call for each resource that was created, the create call is waited for
\* if and only if wait is true, and the resource is fetched from the
\* provider after its create call.
C22_CreateWaitFetch ==
    CreatedWell =>
       /\ Cardinality(CallsOf(CreateOp)) = Cardinality(Created)
       /\ \A k \in CallsOf(CreateOp) :
             /\ WaitedFor(k) <=> params.wait
             /\ FetchedAfter(k)

====
